---- MODULE Spec2Model ----
(***************************************************************************)
(* PixaiTaggerOnnxGui: the tag file store (tag_utils.py), the undoable     *)
(* tag actions and the UndoManager (undo_manager.py), and the main-window  *)
(* handlers that edit tag files and record history (main_window.py).       *)
(*                                                                         *)
(* A tag file's content is a string, modelled as a sequence of one-        *)
(* character strings; tags are strings too.  Reading splits on ',' and     *)
(* strips, writing joins with ', ' -- as the code does.                    *)
(***************************************************************************)
EXTENDS Integers, Sequences, FiniteSets, TLC

VARIABLES files, undo_stack, redo_stack, nextId, last, call, sel, loop, window

vars == <<files, undo_stack, redo_stack, nextId, last, call, sel, loop, window>>

(***************************************************************************)
(* Bounds of the model                                                     *)
(***************************************************************************)
\* longest tag list handed to a tag file store primitive
MaxListLen == 2

\* the history capacity of the modelled UndoManager (the max_history argument)
max_history == 2

\* actions created in one run: enough to overflow the history
MaxActions == max_history + 1

(***************************************************************************)
(* Strings (str.strip, str.split(','), ', '.join) and lists                *)
(***************************************************************************)
Min(a, b) == IF a <= b THEN a ELSE b

IsSpace(c) == c = " "

RECURSIVE lstrip(_)
lstrip(s) == IF s # <<>> /\ IsSpace(Head(s)) THEN lstrip(Tail(s)) ELSE s

RECURSIVE rstrip(_)
rstrip(s) ==
    IF s # <<>> /\ IsSpace(s[Len(s)]) THEN rstrip(SubSeq(s, 1, Len(s) - 1)) ELSE s

strip(s) == rstrip(lstrip(s))

\* s.split(','): the pieces between commas; always at least one piece
RECURSIVE splitFrom(_, _, _, _)
splitFrom(s, i, cur, acc) ==
    IF i > Len(s) THEN Append(acc, cur)
    ELSE IF s[i] = "," THEN splitFrom(s, i + 1, <<>>, Append(acc, cur))
    ELSE splitFrom(s, i + 1, Append(cur, s[i]), acc)

split(s) == splitFrom(s, 1, <<>>, <<>>)

RECURSIVE join(_)
join(tags) ==
    IF tags = <<>> THEN <<>>
    ELSE IF Len(tags) = 1 THEN tags[1]
    ELSE tags[1] \o <<",", " ">> \o join(Tail(tags))

Contains(s, x) == \E i \in 1..Len(s) : s[i] = x

\* list.index(x), 0-based, for x in the list
IndexOf(s, x) == (CHOOSE i \in 1..Len(s) : s[i] = x /\ \A j \in 1..(i - 1) : s[j] # x) - 1

\* list.remove(x) for x in the list: drops the first occurrence
RemoveFirst(s, x) ==
    LET k == IndexOf(s, x) + 1
    IN  SubSeq(s, 1, k - 1) \o SubSeq(s, k + 1, Len(s))

\* list.insert(pos, x) for pos >= 0: positions past the end append
InsertAt(s, pos, x) ==
    LET k == Min(pos, Len(s))
    IN  SubSeq(s, 1, k) \o <<x>> \o SubSeq(s, k + 1, Len(s))

MapStrip(pieces) == [i \in 1..Len(pieces) |-> strip(pieces[i])]

NonEmpty(t) == t # <<>>

\* all sequences over S of length 0..n
RECURSIVE SeqsUpTo(_, _)
SeqsUpTo(S, n) ==
    IF n = 0 THEN {<<>>}
    ELSE LET shorter == SeqsUpTo(S, n - 1)
         IN  shorter \cup {Append(s, x) : s \in shorter, x \in S}

(***************************************************************************)
(* Tag files                                                               *)
(***************************************************************************)
Paths == {"p1", "p2"}

Absent == [exists |-> FALSE, content |-> <<>>]

File(content) == [exists |-> TRUE, content |-> content]

TagA == <<"a">>

TagB == <<"b">>

\* no call recorded / no operation made yet
NoCall == [fn |-> "none", path |-> "p1", tags |-> <<>>, pre |-> Absent, post |-> Absent,
           ret |-> FALSE]

NoLast == [op |-> "none", ret |-> FALSE, depth |-> 0, run |-> 0]

\* no tagger call made / no tagging run started
NoSel == [fn |-> "none"]

NoLoop == [pc |-> "idle"]

\* no window is attached: the specifications of the store, the manager, the editing
\* surface, the selector and the batch loop leave it alone
NoWindow == [pc |-> "none"]

\* [t.strip() for t in text.split(',') if t.strip()]
ParseTags(text) == SelectSeq(MapStrip(split(text)), NonEmpty)

\* content = f.read().strip(); [tag.strip() for tag in content.split(',')] if content else []
ParseKeep(text) ==
    LET content == strip(text)
    IN  IF content = <<>> THEN <<>> ELSE MapStrip(split(content))

read_tags_nostrip(f) ==
    IF ~f.exists THEN <<>>
    ELSE LET content == strip(f.content)
         IN  IF content = <<>> THEN <<>> ELSE SelectSeq(split(content), NonEmpty)

read_tags(f) ==
    IF ~f.exists THEN <<>>
    ELSE LET content == strip(f.content)
         IN  IF content = <<>> THEN <<>> ELSE ParseTags(content)

write_tags(f, tags) == File(join(tags))

\* the loop of add_tags_to_file: append each tag not yet in the list
RECURSIVE AppendMissing(_, _)
AppendMissing(existing, tags) ==
    IF tags = <<>> THEN existing
    ELSE IF Contains(existing, Head(tags)) THEN AppendMissing(existing, Tail(tags))
    ELSE AppendMissing(Append(existing, Head(tags)), Tail(tags))

add_tags_to_file_nodedup(f, tags_to_add) ==
    LET existing == read_tags(f)
        fresh == SelectSeq(tags_to_add, LAMBDA t : ~Contains(existing, t))
    IN  IF fresh # <<>>
        THEN [ret |-> TRUE, file |-> write_tags(f, existing \o fresh)]
        ELSE [ret |-> FALSE, file |-> f]

add_tags_to_file(f, tags_to_add) ==
    LET existing == read_tags(f)
        result == AppendMissing(existing, tags_to_add)
        added == Len(result) > Len(existing)
    IN  IF added
        THEN [ret |-> TRUE, file |-> write_tags(f, result)]
        ELSE [ret |-> FALSE, file |-> f]

remove_tag_from_file_all(f, tag_to_remove) ==
    LET existing == read_tags(f)
    IN  IF Contains(existing, tag_to_remove)
        THEN [ret |-> TRUE,
              file |-> write_tags(f, SelectSeq(existing, LAMBDA t : t # tag_to_remove))]
        ELSE [ret |-> FALSE, file |-> f]

remove_tag_from_file(f, tag_to_remove) ==
    LET existing == read_tags(f)
    IN  IF Contains(existing, tag_to_remove)
        THEN [ret |-> TRUE, file |-> write_tags(f, RemoveFirst(existing, tag_to_remove))]
        ELSE [ret |-> FALSE, file |-> f]

(***************************************************************************)
(* Undoable actions (undo_manager.py).  An action is a record; id stands   *)
(* for the identity of the Python object.  undo/redo of an action map the  *)
(* files to [ok |-> the boolean returned, files |-> the files afterwards]. *)
(***************************************************************************)
AddTagsAction(id, file_path, added_tags) ==
    [kind |-> "AddTags", id |-> id, file_path |-> file_path, added_tags |-> added_tags]

RemoveTagAction(id, file_path, removed_tag, original_index) ==
    [kind |-> "RemoveTag", id |-> id, file_path |-> file_path,
     removed_tag |-> removed_tag, original_index |-> original_index]

BulkAddTagsAction(id, file_paths, added_tags, position) ==
    [kind |-> "BulkAddTags", id |-> id, file_paths |-> file_paths,
     added_tags |-> added_tags, position |-> position]

\* file_tag_positions: a list of <<file_path, original_index>>
BulkRemoveTagsAction(id, removed_tag, file_tag_positions) ==
    [kind |-> "BulkRemoveTags", id |-> id, removed_tag |-> removed_tag,
     file_tag_positions |-> file_tag_positions]

\* for tag in added_tags: if tag in tags: tags.remove(tag)
RECURSIVE RemoveEach(_, _)
RemoveEach(tags, added_tags) ==
    IF added_tags = <<>> THEN tags
    ELSE IF Contains(tags, Head(added_tags))
         THEN RemoveEach(RemoveFirst(tags, Head(added_tags)), Tail(added_tags))
         ELSE RemoveEach(tags, Tail(added_tags))

\* for tag in added_tags: if tag not in tags: tags.append(tag)
RECURSIVE AppendEach(_, _)
AppendEach(tags, added_tags) ==
    IF added_tags = <<>> THEN tags
    ELSE IF Contains(tags, Head(added_tags)) THEN AppendEach(tags, Tail(added_tags))
    ELSE AppendEach(Append(tags, Head(added_tags)), Tail(added_tags))

\* for tag in reversed(added_tags): if tag not in tags: tags.insert(0, tag)
RECURSIVE PrependEach(_, _)
PrependEach(tags, added_tags) ==
    IF added_tags = <<>> THEN tags
    ELSE LET tag == added_tags[Len(added_tags)]
             rest == SubSeq(added_tags, 1, Len(added_tags) - 1)
         IN  IF Contains(tags, tag) THEN PrependEach(tags, rest)
             ELSE PrependEach(<<tag>> \o tags, rest)

AddTagsAction_undo(a, fs) ==
    LET f == fs[a.file_path]
        content == strip(f.content)
    IN  IF ~f.exists THEN [ok |-> FALSE, files |-> fs]
        ELSE IF content = <<>> THEN [ok |-> TRUE, files |-> fs]
        ELSE [ok |-> TRUE,
              files |-> [fs EXCEPT ![a.file_path] =
                            File(join(RemoveEach(MapStrip(split(content)), a.added_tags)))]]

AddTagsAction_redo(a, fs) ==
    LET f == fs[a.file_path]
    IN  IF ~f.exists THEN [ok |-> FALSE, files |-> fs]
        ELSE [ok |-> TRUE,
              files |-> [fs EXCEPT ![a.file_path] =
                            File(join(AppendEach(ParseKeep(f.content), a.added_tags)))]]

RemoveTagAction_undo_append(a, fs) ==
    LET f == fs[a.file_path]
    IN  IF ~f.exists THEN [ok |-> FALSE, files |-> fs]
        ELSE [ok |-> TRUE,
              files |-> [fs EXCEPT ![a.file_path] =
                            File(join(Append(ParseKeep(f.content), a.removed_tag)))]]

RemoveTagAction_undo(a, fs) ==
    LET f == fs[a.file_path]
        tags == ParseKeep(f.content)
        insert_pos == Min(a.original_index, Len(tags))
    IN  IF ~f.exists THEN [ok |-> FALSE, files |-> fs]
        ELSE [ok |-> TRUE,
              files |-> [fs EXCEPT ![a.file_path] =
                            File(join(InsertAt(tags, insert_pos, a.removed_tag)))]]

RemoveTagAction_redo(a, fs) ==
    LET f == fs[a.file_path]
        content == strip(f.content)
        tags == MapStrip(split(content))
    IN  IF ~f.exists THEN [ok |-> FALSE, files |-> fs]
        ELSE IF content = <<>> THEN [ok |-> TRUE, files |-> fs]
        ELSE [ok |-> TRUE,
              files |-> [fs EXCEPT ![a.file_path] =
                            File(join(IF Contains(tags, a.removed_tag)
                                      THEN RemoveFirst(tags, a.removed_tag)
                                      ELSE tags))]]

\* The bulk loops: st = [count |-> success_count, files |-> the files so far]
BulkAddUndoFile(a, st, file_path) ==
    LET f == st.files[file_path]
        content == strip(f.content)
    IN  IF ~f.exists THEN st
        ELSE IF content = <<>> THEN [st EXCEPT !.count = @ + 1]
        ELSE [count |-> st.count + 1,
              files |-> [st.files EXCEPT ![file_path] =
                            File(join(RemoveEach(MapStrip(split(content)), a.added_tags)))]]

BulkAddRedoFile(a, st, file_path) ==
    LET f == st.files[file_path]
        tags == ParseKeep(f.content)
    IN  IF ~f.exists THEN st
        ELSE [count |-> st.count + 1,
              files |-> [st.files EXCEPT ![file_path] =
                            File(join(IF a.position = "prepend"
                                      THEN PrependEach(tags, a.added_tags)
                                      ELSE AppendEach(tags, a.added_tags)))]]

BulkRemoveUndoFile(a, st, entry) ==
    LET file_path == entry[1]
        original_index == entry[2]
        f == st.files[file_path]
        tags == ParseKeep(f.content)
        insert_pos == Min(original_index, Len(tags))
    IN  IF ~f.exists THEN st
        ELSE [count |-> st.count + 1,
              files |-> [st.files EXCEPT ![file_path] =
                            File(join(InsertAt(tags, insert_pos, a.removed_tag)))]]

BulkRemoveRedoFile(a, st, entry) ==
    LET file_path == entry[1]
        f == st.files[file_path]
        content == strip(f.content)
        tags == MapStrip(split(content))
    IN  IF ~f.exists THEN st
        ELSE IF content = <<>> THEN [st EXCEPT !.count = @ + 1]
        ELSE [count |-> st.count + 1,
              files |-> [st.files EXCEPT ![file_path] =
                            File(join(IF Contains(tags, a.removed_tag)
                                      THEN RemoveFirst(tags, a.removed_tag)
                                      ELSE tags))]]

\* one iteration of the loop of the bulk method `method`
BulkStep(method, a, st, item) ==
    CASE method = "BulkAddTags.undo" -> BulkAddUndoFile(a, st, item)
      [] method = "BulkAddTags.redo" -> BulkAddRedoFile(a, st, item)
      [] method = "BulkRemoveTags.undo" -> BulkRemoveUndoFile(a, st, item)
      [] method = "BulkRemoveTags.redo" -> BulkRemoveRedoFile(a, st, item)

\* for item in items: one iteration each, in order
RECURSIVE BulkLoop(_, _, _, _)
BulkLoop(method, a, st, items) ==
    IF items = <<>> THEN st
    ELSE BulkLoop(method, a, BulkStep(method, a, st, Head(items)), Tail(items))

BulkResult_any(st) == [ok |-> TRUE, files |-> st.files]

\* return success_count > 0
BulkResult(st) == [ok |-> st.count > 0, files |-> st.files]

BulkStart(fs) == [count |-> 0, files |-> fs]

BulkAddTagsAction_undo(a, fs) ==
    BulkResult(BulkLoop("BulkAddTags.undo", a, BulkStart(fs), a.file_paths))

BulkAddTagsAction_redo(a, fs) ==
    BulkResult(BulkLoop("BulkAddTags.redo", a, BulkStart(fs), a.file_paths))

BulkRemoveTagsAction_undo(a, fs) ==
    BulkResult(BulkLoop("BulkRemoveTags.undo", a, BulkStart(fs), a.file_tag_positions))

BulkRemoveTagsAction_redo(a, fs) ==
    BulkResult(BulkLoop("BulkRemoveTags.redo", a, BulkStart(fs), a.file_tag_positions))

\* action.undo() / action.redo() by the action's class
ActionUndo(a, fs) ==
    CASE a.kind = "AddTags" -> AddTagsAction_undo(a, fs)
      [] a.kind = "RemoveTag" -> RemoveTagAction_undo(a, fs)
      [] a.kind = "BulkAddTags" -> BulkAddTagsAction_undo(a, fs)
      [] a.kind = "BulkRemoveTags" -> BulkRemoveTagsAction_undo(a, fs)

ActionRedo(a, fs) ==
    CASE a.kind = "AddTags" -> AddTagsAction_redo(a, fs)
      [] a.kind = "RemoveTag" -> RemoveTagAction_redo(a, fs)
      [] a.kind = "BulkAddTags" -> BulkAddTagsAction_redo(a, fs)
      [] a.kind = "BulkRemoveTags" -> BulkRemoveTagsAction_redo(a, fs)

(***************************************************************************)
(* UndoManager (undo_manager.py).  m = [undo_stack, redo_stack]            *)
(***************************************************************************)
Manager(us, rs) == [undo_stack |-> us, redo_stack |-> rs]

Top(stack) == stack[Len(stack)]

Pop(stack) == SubSeq(stack, 1, Len(stack) - 1)

push_keep_redo(m, action) ==
    LET appended == Append(m.undo_stack, action)
    IN  [undo_stack |-> IF Len(appended) > max_history THEN Tail(appended) ELSE appended,
         redo_stack |-> m.redo_stack]

push_evict_newest(m, action) ==
    LET appended == Append(m.undo_stack, action)
    IN  [undo_stack |-> IF Len(appended) > max_history
                        THEN SubSeq(appended, 1, Len(appended) - 1)
                        ELSE appended,
         redo_stack |-> <<>>]

push_unbounded(m, action) ==
    [undo_stack |-> Append(m.undo_stack, action), redo_stack |-> <<>>]

push(m, action) ==
    LET appended == Append(m.undo_stack, action)
    IN  [undo_stack |-> IF Len(appended) > max_history THEN Tail(appended) ELSE appended,
         redo_stack |-> <<>>]

can_undo(m) == Len(m.undo_stack) > 0

can_redo(m) == Len(m.redo_stack) > 0

undo_requeue(m, fs) ==
    IF ~can_undo(m)
    THEN [ret |-> FALSE, undo_stack |-> m.undo_stack, redo_stack |-> m.redo_stack,
          files |-> fs]
    ELSE LET action == Top(m.undo_stack)
             r == ActionUndo(action, fs)
         IN  IF r.ok
             THEN [ret |-> TRUE, undo_stack |-> Pop(m.undo_stack),
                   redo_stack |-> Append(m.redo_stack, action), files |-> r.files]
             ELSE [ret |-> FALSE, undo_stack |-> m.undo_stack,
                   redo_stack |-> m.redo_stack, files |-> r.files]

undo(m, fs) ==
    IF ~can_undo(m)
    THEN [ret |-> FALSE, undo_stack |-> m.undo_stack, redo_stack |-> m.redo_stack,
          files |-> fs]
    ELSE LET action == Top(m.undo_stack)
             r == ActionUndo(action, fs)
         IN  IF r.ok
             THEN [ret |-> TRUE, undo_stack |-> Pop(m.undo_stack),
                   redo_stack |-> Append(m.redo_stack, action), files |-> r.files]
             ELSE [ret |-> FALSE, undo_stack |-> Pop(m.undo_stack),
                   redo_stack |-> m.redo_stack, files |-> r.files]

redo_requeue(m, fs) ==
    IF ~can_redo(m)
    THEN [ret |-> FALSE, undo_stack |-> m.undo_stack, redo_stack |-> m.redo_stack,
          files |-> fs]
    ELSE LET action == Top(m.redo_stack)
             r == ActionRedo(action, fs)
         IN  IF r.ok
             THEN [ret |-> TRUE, undo_stack |-> Append(m.undo_stack, action),
                   redo_stack |-> Pop(m.redo_stack), files |-> r.files]
             ELSE [ret |-> FALSE, undo_stack |-> Append(m.undo_stack, action),
                   redo_stack |-> Pop(m.redo_stack), files |-> r.files]

redo(m, fs) ==
    IF ~can_redo(m)
    THEN [ret |-> FALSE, undo_stack |-> m.undo_stack, redo_stack |-> m.redo_stack,
          files |-> fs]
    ELSE LET action == Top(m.redo_stack)
             r == ActionRedo(action, fs)
         IN  IF r.ok
             THEN [ret |-> TRUE, undo_stack |-> Append(m.undo_stack, action),
                   redo_stack |-> Pop(m.redo_stack), files |-> r.files]
             ELSE [ret |-> FALSE, undo_stack |-> m.undo_stack,
                   redo_stack |-> Pop(m.redo_stack), files |-> r.files]

clear(m) == [undo_stack |-> <<>>, redo_stack |-> <<>>]

(***************************************************************************)
(* Steps of the manager.  last records the call just made: op, the boolean *)
(* returned, depth = the size, before the call, of the stack the call pops *)
(* (undo, redo) or clears (push: the redo stack), and run = the number of  *)
(* pushes made in a row onto a manager that was empty (0: no such run).    *)
(***************************************************************************)
Empty == undo_stack = <<>> /\ redo_stack = <<>>

PushRun == IF Empty THEN 1
           ELSE IF last.op = "push" /\ last.run > 0 THEN last.run + 1
           ELSE 0

\* self.undo_manager.push(action) from a handler, or by any other caller
DoPush(action, op) ==
    LET m == push(Manager(undo_stack, redo_stack), action)
    IN  /\ undo_stack' = m.undo_stack
        /\ redo_stack' = m.redo_stack
        /\ nextId' = nextId + 1
        /\ last' = [op |-> op, ret |-> TRUE, depth |-> Len(redo_stack), run |-> PushRun]

Push(template) ==
    /\ nextId <= MaxActions
    /\ DoPush([template EXCEPT !.id = nextId], "push")
    /\ call' = NoCall
    /\ UNCHANGED <<files, sel, loop, window>>

\* call follows one single-tag add through the undo() and the redo() made right after
\* it, and one single-tag delete through the undo() made right after it
TrackUndo ==
    IF call.fn = "_add_single_tag" /\ call.ret
    THEN [call EXCEPT !.fn = "_add_single_tag;undo"]
    ELSE IF call.fn = "_delete_image_tag" /\ call.ret
    THEN [call EXCEPT !.fn = "_delete_image_tag;undo"]
    ELSE NoCall

TrackRedo ==
    IF call.fn = "_add_single_tag;undo"
    THEN [call EXCEPT !.fn = "_add_single_tag;undo;redo"]
    ELSE NoCall

Undo ==
    LET r == undo(Manager(undo_stack, redo_stack), files)
    IN  /\ undo_stack' = r.undo_stack
        /\ redo_stack' = r.redo_stack
        /\ files' = r.files
        /\ last' = [op |-> "undo", ret |-> r.ret, depth |-> Len(undo_stack), run |-> 0]
        /\ call' = TrackUndo
        /\ UNCHANGED <<nextId, sel, loop, window>>

Redo ==
    LET r == redo(Manager(undo_stack, redo_stack), files)
    IN  /\ undo_stack' = r.undo_stack
        /\ redo_stack' = r.redo_stack
        /\ files' = r.files
        /\ last' = [op |-> "redo", ret |-> r.ret, depth |-> Len(redo_stack), run |-> 0]
        /\ call' = TrackRedo
        /\ UNCHANGED <<nextId, sel, loop, window>>

Clear ==
    LET m == clear(Manager(undo_stack, redo_stack))
    IN  /\ undo_stack' = m.undo_stack
        /\ redo_stack' = m.redo_stack
        /\ last' = [op |-> "clear", ret |-> TRUE, depth |-> 0, run |-> 0]
        /\ call' = NoCall
        /\ UNCHANGED <<files, nextId, sel, loop, window>>

\* a tag file is deleted outside the program
ExternalDelete(p) ==
    /\ files[p].exists
    /\ files' = [files EXCEPT ![p] = Absent]
    /\ last' = [op |-> "delete_file", ret |-> TRUE, depth |-> 0, run |-> 0]
    /\ call' = NoCall
    /\ UNCHANGED <<undo_stack, redo_stack, nextId, sel, loop, window>>

(***************************************************************************)
(* The tag file store driven directly: SpecStore                           *)
(***************************************************************************)
\* tags as the callers of the store produce them: comma-split, stripped, non-empty
ValidTags == {<<"a">>, <<"b">>, <<"a", " ", "b">>}

\* strings that are no well-formed tag: empty, padded, holding a comma
OddTags == {<<>>, <<" ", "a">>, <<"a", ",", "b">>}

ValidTag(t) ==
    /\ t # <<>>
    /\ \A i \in 1..Len(t) : t[i] # ","
    /\ strip(t) = t

\* contents a tag file may hold before the store touches it (hand-edited files included)
StoreContents ==
    { <<>>, <<" ">>, <<"a">>, <<"a", ",", " ", "b">>, <<"a", ",", "b">>,
      <<" ", "a", " ", ",", ",", "b", " ">>, <<"b", ",", " ", "a", ",", " ", "b">>,
      <<"a", " ", "b", ",", " ", "a">>, <<"a", ",", " ", "A", ",", " ", "a">> }

\* the tag a caller may ask the store to remove
RemoveInputs == ValidTags \cup {<<"A">>, <<" ", "a">>}

InitStore ==
    /\ files \in [Paths -> {Absent} \cup {File(c) : c \in StoreContents}]
    /\ files["p2"] = Absent
    /\ undo_stack = <<>>
    /\ redo_stack = <<>>
    /\ nextId = 1
    /\ last = NoLast
    /\ call = NoCall
    /\ sel = NoSel
    /\ loop = NoLoop
    /\ window = NoWindow

StoreFrame == UNCHANGED <<undo_stack, redo_stack, nextId, last, sel, loop, window>>

ReadTags(p) ==
    /\ call' = [fn |-> "read_tags", path |-> p, tags |-> read_tags(files[p]),
                pre |-> files[p], post |-> files[p], ret |-> TRUE]
    /\ UNCHANGED files
    /\ StoreFrame

\* write_tags overwrites without reading: the call keeps no content from before it
WriteTags(p, tags) ==
    /\ files' = [files EXCEPT ![p] = write_tags(files[p], tags)]
    /\ call' = [fn |-> "write_tags", path |-> p, tags |-> tags, pre |-> Absent,
                post |-> write_tags(files[p], tags), ret |-> TRUE]
    /\ StoreFrame

AddTagsToFile(p, tags) ==
    LET r == add_tags_to_file(files[p], tags)
    IN  /\ files' = [files EXCEPT ![p] = r.file]
        /\ call' = [fn |-> "add_tags_to_file", path |-> p, tags |-> tags,
                    pre |-> files[p], post |-> r.file, ret |-> r.ret]
        /\ StoreFrame

RemoveTagFromFile(p, tag) ==
    LET r == remove_tag_from_file(files[p], tag)
    IN  /\ files' = [files EXCEPT ![p] = r.file]
        /\ call' = [fn |-> "remove_tag_from_file", path |-> p, tags |-> <<tag>>,
                    pre |-> files[p], post |-> r.file, ret |-> r.ret]
        /\ StoreFrame

NextStore ==
    \/ \E p \in {"p1"} : ReadTags(p)
    \/ \E p \in {"p1"}, tags \in SeqsUpTo(ValidTags \cup OddTags, MaxListLen) : WriteTags(p, tags)
    \/ \E p \in {"p1"}, tags \in SeqsUpTo(ValidTags, MaxListLen) : AddTagsToFile(p, tags)
    \/ \E p \in {"p1"}, tag \in RemoveInputs : RemoveTagFromFile(p, tag)

SpecStore == InitStore /\ [][NextStore]_vars

(***************************************************************************)
(* Claims about the tag file store (checked under SpecStore)               *)
(***************************************************************************)
AllValid(tags) == \A i \in 1..Len(tags) : ValidTag(tags[i])

\* C9: write_tags(path, tags) followed by read_tags(path) returns exactly tags, in
\* order, whenever every tag is non-empty, comma-free and stripped; and read_tags of
\* an absent or empty file returns the empty list.
C9_StoreRoundTrip ==
    /\ (call.fn = "write_tags" /\ AllValid(call.tags))
          => read_tags(files[call.path]) = call.tags
    /\ \A p \in Paths :
          (~files[p].exists \/ files[p].content = <<>>) => read_tags(files[p]) = <<>>

\* a two-tag list, one tag holding an inner space, was written and read back
C9_Witness ==
    /\ call.fn = "write_tags"
    /\ call.tags = << <<"a", " ", "b">>, <<"b">> >>
    /\ files[call.path] = call.post
    /\ read_tags(files[call.path]) = call.tags

\* the tags of new_tags not in existing, first occurrences only, in input order
FirstNew(existing, new_tags) ==
    LET keep(i) == /\ ~Contains(existing, new_tags[i])
                   /\ \A j \in 1..(i - 1) : new_tags[j] # new_tags[i]
        F[i \in 0..Len(new_tags)] ==
            IF i = 0 THEN <<>>
            ELSE IF keep(i) THEN Append(F[i - 1], new_tags[i]) ELSE F[i - 1]
    IN  F[Len(new_tags)]

\* C10: add_tags_to_file appends, in input order, exactly the tags of new_tags not
\* already in the file, each once, after the existing tags in their order; it returns
\* True iff a tag was appended, leaves the file unwritten when it returns False, and
\* a second application of the same add changes nothing and returns False.
C10_AddTagsToFile ==
    call.fn = "add_tags_to_file" =>
        LET existing == read_tags(call.pre)
            appended == FirstNew(existing, call.tags)
            post == files[call.path]
            again == add_tags_to_file(post, call.tags)
        IN  /\ call.ret = (appended # <<>>)
            /\ call.ret => read_tags(post) = existing \o appended
            /\ ~call.ret => post = call.pre
            /\ again.ret = FALSE
            /\ again.file = post

\* add(["a","a","b"]-like input with a repeat) on a file already holding one of them
C10_Witness ==
    /\ call.fn = "add_tags_to_file"
    /\ call.tags = << <<"b">>, <<"b">> >>
    /\ read_tags(call.pre) = << <<"a">> >>
    /\ call.ret
    /\ read_tags(files[call.path]) = << <<"a">>, <<"b">> >>

\* C11: remove_tag_from_file removes only the first exact (case-sensitive) occurrence
\* of the tag, keeps every other tag in order and returns True; when the tag is not
\* in the file, or the file is absent, it returns False and leaves the file as it was.
C11_RemoveTagFromFile ==
    call.fn = "remove_tag_from_file" =>
        LET existing == read_tags(call.pre)
            tag == call.tags[1]
            post == files[call.path]
            first == {i \in 1..Len(existing) :
                         existing[i] = tag /\ \A j \in 1..(i - 1) : existing[j] # tag}
        IN  /\ call.ret = (first # {})
            /\ call.ret =>
                  \A i \in first :
                     read_tags(post) =
                        [k \in 1..(Len(existing) - 1) |->
                            IF k < i THEN existing[k] ELSE existing[k + 1]]
            /\ ~call.ret => post = call.pre

\* "a" was removed from a file holding a, A, a: only the first goes, A and the
\* second a stay
C11_Witness ==
    /\ call.fn = "remove_tag_from_file"
    /\ call.tags = << <<"a">> >>
    /\ read_tags(call.pre) = << <<"a">>, <<"A">>, <<"a">> >>
    /\ call.ret
    /\ read_tags(files[call.path]) = << <<"A">>, <<"a">> >>

(***************************************************************************)
(* The UndoManager driven directly: SpecManager.  Any caller may push any  *)
(* action; tag files differ from what the actions recorded, or are gone.   *)
(***************************************************************************)
ActionInputs ==
    { AddTagsAction(0, "p1", <<TagA, TagB>>),
      RemoveTagAction(0, "p1", TagA, 1),
      RemoveTagAction(0, "p2", TagB, 2),
      BulkAddTagsAction(0, <<"p1", "p2">>, <<TagA>>, "prepend"),
      BulkAddTagsAction(0, <<"p2", "p1">>, <<TagB>>, "append"),
      BulkAddTagsAction(0, <<>>, <<TagA>>, "append"),
      BulkRemoveTagsAction(0, TagA, << <<"p1", 0>>, <<"p2", 2>> >>),
      BulkRemoveTagsAction(0, TagB, <<>>) }

\* the tag files when the manager is constructed
ManagerFiles ==
    { [p \in Paths |-> IF p = "p1" THEN f1 ELSE f2] :
        f1 \in {File(<<>>), File(join(<<TagB, TagA>>))},
        f2 \in {Absent, File(join(<<TagB>>))} }

InitManager ==
    /\ files \in ManagerFiles
    /\ undo_stack = <<>>
    /\ redo_stack = <<>>
    /\ nextId = 1
    /\ last = NoLast
    /\ call = NoCall
    /\ sel = NoSel
    /\ loop = NoLoop
    /\ window = NoWindow

NextManager ==
    \/ \E template \in ActionInputs : Push(template)
    \/ Undo
    \/ Redo
    \/ Clear
    \/ \E p \in Paths : ExternalDelete(p)

SpecManager == InitManager /\ [][NextManager]_vars

(***************************************************************************)
(* Claims about the UndoManager and the actions (checked under SpecManager)*)
(***************************************************************************)
InStack(id, stack) == \E i \in 1..Len(stack) : stack[i].id = id

\* C1: push always leaves the redo stack empty, whatever it held; so a redo() that
\* directly follows a push returns False and changes neither stack nor any tag file.
C1_PushClearsRedo ==
    [][ /\ last'.op = "push" => redo_stack' = <<>>
        /\ (last.op = "push" /\ last'.op = "redo")
              => /\ ~last'.ret
                 /\ UNCHANGED <<undo_stack, redo_stack, files>> ]_vars

\* a push has just discarded a non-empty redo stack (left there by a successful undo)
C1_Witness ==
    /\ last.op = "push"
    /\ last.depth > 0
    /\ undo_stack # <<>>

\* C2: k pushes in a row onto an empty manager leave min(k, max_history) actions in
\* the undo stack: the most recently pushed ones, in push order; so max_history + 1
\* pushes leave exactly max_history, the oldest one evicted.
C2_HistoryEviction ==
    (last.op = "push" /\ last.run > 0) =>
        /\ Len(undo_stack) = Min(last.run, max_history)
        /\ \A i \in 1..Len(undo_stack) :
              undo_stack[i].id = nextId - 1 - (Len(undo_stack) - i)

\* max_history + 1 pushes in a row onto an empty manager have been made
C2_Witness ==
    /\ last.op = "push"
    /\ last.run = max_history + 1
    /\ Len(undo_stack) = max_history

\* C3: undo() on a non-empty undo stack pops the top action and calls its undo(); on
\* True the action becomes the top of the redo stack and undo() returns True; on False
\* the action is in neither stack, the redo stack is unchanged and undo() returns False.
C3_UndoMovesOrDrops ==
    [][ (last'.op = "undo" /\ undo_stack # <<>>) =>
          LET action == Top(undo_stack)
          IN  /\ undo_stack' = Pop(undo_stack)
              /\ last'.ret = ActionUndo(action, files).ok
              /\ last'.ret => redo_stack' = Append(redo_stack, action)
              /\ ~last'.ret =>
                    /\ redo_stack' = redo_stack
                    /\ ~InStack(action.id, undo_stack')
                    /\ ~InStack(action.id, redo_stack') ]_vars

\* an undo() has just failed on a non-empty undo stack, next to a non-empty redo stack
C3_Witness ==
    /\ last.op = "undo"
    /\ ~last.ret
    /\ last.depth > 0
    /\ redo_stack # <<>>

\* C4: redo() on a non-empty redo stack pops the top action and calls its redo(); on
\* True the action becomes the top of the undo stack and redo() returns True; on False
\* the action is in neither stack and redo() returns False; on an empty redo stack
\* redo() returns False and changes nothing.
C4_RedoMovesOrDrops ==
    [][ last'.op = "redo" =>
          IF redo_stack = <<>>
          THEN ~last'.ret /\ UNCHANGED <<undo_stack, redo_stack, files>>
          ELSE LET action == Top(redo_stack)
               IN  /\ redo_stack' = Pop(redo_stack)
                   /\ last'.ret = ActionRedo(action, files).ok
                   /\ last'.ret => undo_stack' = Append(undo_stack, action)
                   /\ ~last'.ret =>
                         /\ undo_stack' = undo_stack
                         /\ ~InStack(action.id, undo_stack')
                         /\ ~InStack(action.id, redo_stack') ]_vars

\* a redo() has just failed on a non-empty redo stack, next to a non-empty undo stack
C4_Witness ==
    /\ last.op = "redo"
    /\ ~last.ret
    /\ last.depth > 0
    /\ undo_stack # <<>>

\* C6: RemoveTagAction.undo() on an existing file inserts the removed tag at position
\* min(original_index, current length) of the file's current tag list, keeps the other
\* tags in their order, touches no other file and returns True, however the file has
\* shrunk or grown.
C6_RemoveUndoClamped ==
    [][ ( /\ last'.op = "undo"
          /\ undo_stack # <<>>
          /\ Top(undo_stack).kind = "RemoveTag"
          /\ files[Top(undo_stack).file_path].exists ) =>
          LET a == Top(undo_stack)
              cur == read_tags(files[a.file_path])
              new == read_tags(files'[a.file_path])
              k == Min(a.original_index, Len(cur))
          IN  /\ last'.ret
              /\ Len(new) = Len(cur) + 1
              /\ new[k + 1] = a.removed_tag
              /\ \A i \in 1..k : new[i] = cur[i]
              /\ \A i \in (k + 1)..Len(cur) : new[i + 1] = cur[i]
              /\ \A q \in Paths \ {a.file_path} : files'[q] = files[q] ]_vars

\* a RemoveTagAction was undone on a file shorter than its original_index
C6_Witness ==
    /\ last.op = "undo"
    /\ last.ret
    /\ redo_stack # <<>>
    /\ Top(redo_stack).kind = "RemoveTag"
    /\ Len(read_tags(files[Top(redo_stack).file_path])) <= Top(redo_stack).original_index

IsBulk(a) == a.kind \in {"BulkAddTags", "BulkRemoveTags"}

CapturedPaths(a) ==
    IF a.kind = "BulkAddTags"
    THEN {a.file_paths[i] : i \in 1..Len(a.file_paths)}
    ELSE {a.file_tag_positions[i][1] : i \in 1..Len(a.file_tag_positions)}

CapturedIndex(a, p) ==
    (CHOOSE e \in {a.file_tag_positions[i] : i \in 1..Len(a.file_tag_positions)} :
        e[1] = p)[2]

\* what the single-file operation makes of file p
SingleUndo(a, p, fs) ==
    IF a.kind = "BulkAddTags"
    THEN AddTagsAction_undo(AddTagsAction(0, p, a.added_tags), fs).files[p]
    ELSE RemoveTagAction_undo(
             RemoveTagAction(0, p, a.removed_tag, CapturedIndex(a, p)), fs).files[p]

SingleRedo(a, p, fs) ==
    IF a.kind = "BulkRemoveTags"
    THEN RemoveTagAction_redo(RemoveTagAction(0, p, a.removed_tag, 0), fs).files[p]
    ELSE IF a.position = "append"
    THEN AddTagsAction_redo(AddTagsAction(0, p, a.added_tags), fs).files[p]
    ELSE File(join(FirstNew(read_tags(fs[p]), a.added_tags) \o read_tags(fs[p])))

\* the files after the bulk call, from the single-file operation on each captured file
ExpectedUndo(a) ==
    [p \in Paths |-> IF p \in CapturedPaths(a) /\ files[p].exists
                     THEN SingleUndo(a, p, files)
                     ELSE files[p]]

ExpectedRedo(a) ==
    [p \in Paths |-> IF p \in CapturedPaths(a) /\ files[p].exists
                     THEN SingleRedo(a, p, files)
                     ELSE files[p]]

BulkOutcome(a, ret, expected) ==
    /\ files' = expected
    /\ ret = (\E p \in CapturedPaths(a) : files[p].exists)
    /\ ~ret => ~InStack(a.id, undo_stack') /\ ~InStack(a.id, redo_stack')

\* C7: undo() and redo() of a bulk action treat every captured file on its own: a
\* missing file is skipped and stays missing, every existing captured file gets the
\* single-file operation, no other file changes, and the call returns True iff at
\* least one captured file exists (else the manager drops the action).
C7_BulkPartialFailure ==
    [][ /\ (last'.op = "undo" /\ undo_stack # <<>> /\ IsBulk(Top(undo_stack)))
              => BulkOutcome(Top(undo_stack), last'.ret, ExpectedUndo(Top(undo_stack)))
        /\ (last'.op = "redo" /\ redo_stack # <<>> /\ IsBulk(Top(redo_stack)))
              => BulkOutcome(Top(redo_stack), last'.ret, ExpectedRedo(Top(redo_stack))) ]_vars

\* a BulkRemoveTagsAction was undone with one captured file missing and one present
C7_Witness ==
    /\ last.op = "undo"
    /\ last.ret
    /\ redo_stack # <<>>
    /\ Top(redo_stack).kind = "BulkRemoveTags"
    /\ \E p \in CapturedPaths(Top(redo_stack)) : ~files[p].exists
    /\ \E p \in CapturedPaths(Top(redo_stack)) :
          Contains(read_tags(files[p]), Top(redo_stack).removed_tag)

\* ---------------------------------------------------------------------------
\* The editing surface: the main window's single-tag handlers, the grid view's
\* edits through the tag file store, and the undo / redo shortcuts.
\* ---------------------------------------------------------------------------

\* MainWindow._add_single_tag on the tag file f, new_tags being the entries parsed
\* from the input line: entries already in the file are filtered out; the entries
\* kept are not compared with each other
add_single_tag(f, new_tags) ==
    LET existing_tags == IF f.exists THEN ParseTags(f.content) ELSE <<>>
        tags_to_add == SelectSeq(new_tags, LAMBDA tag : ~Contains(existing_tags, tag))
    IN  [tags_to_add |-> tags_to_add,
         file |-> IF tags_to_add = <<>> THEN f
                  ELSE File(join(existing_tags \o tags_to_add))]

\* every occurrence of the tag removed, the index of the first recorded
delete_image_tag_all(f, tag_to_delete) ==
    LET tags == ParseTags(f.content)
    IN  IF f.exists /\ Contains(tags, tag_to_delete)
        THEN [found |-> TRUE, original_index |-> IndexOf(tags, tag_to_delete),
              file |-> File(join(SelectSeq(tags, LAMBDA t : t # tag_to_delete)))]
        ELSE [found |-> FALSE, original_index |-> 0, file |-> f]

\* MainWindow._delete_image_tag on the tag file f
delete_image_tag(f, tag_to_delete) ==
    LET tags == ParseTags(f.content)
    IN  IF f.exists /\ Contains(tags, tag_to_delete)
        THEN [found |-> TRUE, original_index |-> IndexOf(tags, tag_to_delete),
              file |-> File(join(RemoveFirst(tags, tag_to_delete)))]
        ELSE [found |-> FALSE, original_index |-> 0, file |-> f]

\* the loop of GridViewWidget._add_tag that keeps the entries neither in the file
\* nor already kept
RECURSIVE actually_new_tags(_, _, _)
actually_new_tags(existing_tags, tags_to_add, acc) ==
    IF tags_to_add = <<>> THEN acc
    ELSE LET tag == Head(tags_to_add)
         IN  actually_new_tags(existing_tags, Tail(tags_to_add),
                 IF Contains(existing_tags, tag) \/ Contains(acc, tag) THEN acc
                 ELSE Append(acc, tag))

\* the image selected in the list (image_list.currentItem) or shown in the grid view
CurrentImages == {"p1"}

\* the entries a user can type into an add line
TagInputs == SeqsUpTo({TagA, TagB}, MaxListLen) \ {<<>>}

\* the tag files of the input directory when the window opens
InitialFiles ==
    { [p \in Paths |-> IF p = "p1" THEN f1 ELSE f2] :
        f1 \in {Absent, File(<<>>), File(<<"a">>), File(<<"b", ",", " ", "a">>)},
        f2 \in {Absent, File(<<"b">>)} }

Init ==
    /\ files \in InitialFiles
    /\ undo_stack = <<>>
    /\ redo_stack = <<>>
    /\ nextId = 1
    /\ last = NoLast
    /\ call = NoCall
    /\ sel = NoSel
    /\ loop = NoLoop
    /\ window = NoWindow

AddSingleTag(p, new_tags) ==
    LET r == add_single_tag(files[p], new_tags)
    IN  IF r.tags_to_add = <<>>
           THEN /\ last' = [op |-> "_add_single_tag", ret |-> FALSE, depth |-> 0, run |-> 0]
                /\ call' = NoCall
                /\ UNCHANGED <<files, undo_stack, redo_stack, nextId, sel, loop, window>>
           ELSE /\ nextId <= MaxActions
                /\ files' = [files EXCEPT ![p] = r.file]
                /\ DoPush(AddTagsAction(nextId, p, r.tags_to_add), "_add_single_tag")
                /\ UNCHANGED <<sel, loop, window>>
                /\ call' = [fn |-> "_add_single_tag", path |-> p, tags |-> r.tags_to_add,
                            pre |-> files[p], post |-> r.file, ret |-> TRUE]

DeleteImageTag(p, tag_to_delete) ==
    LET r == delete_image_tag(files[p], tag_to_delete)
    IN  IF r.found
           THEN /\ nextId <= MaxActions
                /\ files' = [files EXCEPT ![p] = r.file]
                /\ DoPush(RemoveTagAction(nextId, p, tag_to_delete, r.original_index),
                          "_delete_image_tag")
                /\ UNCHANGED <<sel, loop, window>>
                /\ call' = [fn |-> "_delete_image_tag", path |-> p,
                            tags |-> <<tag_to_delete>>,
                            pre |-> files[p], post |-> r.file, ret |-> TRUE]
           ELSE /\ last' = [op |-> "_delete_image_tag", ret |-> FALSE, depth |-> 0, run |-> 0]
                /\ call' = NoCall
                /\ UNCHANGED <<files, undo_stack, redo_stack, nextId, sel, loop, window>>

\* GridViewWidget._add_tag: written through the tag file store, no action recorded
GridAddTag(p, tags_to_add) ==
    LET new == actually_new_tags(read_tags(files[p]), tags_to_add, <<>>)
        r == add_tags_to_file(files[p], new)
    IN  /\ files' = [files EXCEPT ![p] = IF new = <<>> THEN files[p] ELSE r.file]
        /\ last' = [op |-> "GridView._add_tag", ret |-> new # <<>> /\ r.ret,
                    depth |-> 0, run |-> 0]
        /\ call' = NoCall
        /\ UNCHANGED <<undo_stack, redo_stack, nextId, sel, loop, window>>

\* GridViewWidget._remove_tag: written through the tag file store, no action recorded
GridRemoveTag(p, tag_to_remove) ==
    LET r == remove_tag_from_file(files[p], tag_to_remove)
    IN  /\ files' = [files EXCEPT ![p] = r.file]
        /\ last' = [op |-> "GridView._remove_tag", ret |-> r.ret, depth |-> 0, run |-> 0]
        /\ call' = NoCall
        /\ UNCHANGED <<undo_stack, redo_stack, nextId, sel, loop, window>>

Next ==
    \/ \E p \in CurrentImages, new_tags \in TagInputs : AddSingleTag(p, new_tags)
    \/ \E p \in CurrentImages, tag \in {TagA, TagB} : DeleteImageTag(p, tag)
    \/ \E p \in CurrentImages, tags \in TagInputs : GridAddTag(p, tags)
    \/ \E p \in CurrentImages, tag \in {TagA, TagB} : GridRemoveTag(p, tag)
    \/ Undo
    \/ Redo
    \/ \E p \in Paths : ExternalDelete(p)

Spec == Init /\ [][Next]_vars

\* ---------------------------------------------------------------------------
\* Claims checked on Spec
\* ---------------------------------------------------------------------------

NoDup(tags) == \A i, j \in 1..Len(tags) : tags[i] = tags[j] => i = j

\* C5: after a single-file add, then undo(), then redo(), with nothing else touching
\* the file in between, the file's ordered tag list is the one the add left
C5_AddUndoRedoRoundTrip ==
    call.fn = "_add_single_tag;undo;redo"
        => read_tags(files[call.path]) = read_tags(call.post)

\* C8: starting from tag files without duplicate tags, no tag file ever contains a
\* tag twice
C8_NoDuplicateTags == \A p \in Paths : NoDup(read_tags(files[p]))

(***************************************************************************)
(* Tag selection (tagging_core.py, OnnxTagger.infer_batch_prepared).       *)
(* A score is a whole number of units of 0.00005, so that the floor 1e-4   *)
(* is 2 units and a score can lie under it; thresholds use the same unit.  *)
(* A name is a string, a sequence of one-character strings.                *)
(***************************************************************************)
\* highest score of the model, in units
MaxScore == 4

\* highest per-category cap a configuration of the model holds
MaxCap == 2

\* TagCategory
GENERAL == 0

RATING == 2

CHARACTER == 4

\* score_floor = 1e-4, in units
score_floor == 2

\* the hard cap when max_tags is empty or None
default_hard_cap == 100

\* code points order the characters of a name
Alphabet == <<" ", "A", "S", "_", "a", "b", "c", "l", "o", "r", "s", "x", "y">>

Ord(c) == CHOOSE i \in 1..Len(Alphabet) : Alphabet[i] = c

\* str < str
StrLess(a, b) ==
    \E i \in 1..(Len(b)) :
        /\ \A j \in 1..(i - 1) : j <= Len(a) /\ a[j] = b[j]
        /\ \/ i = Len(a) + 1
           \/ i <= Len(a) /\ Ord(a[i]) < Ord(b[i])

TagMeta(name, category, ips) == [name |-> name, category |-> category, ips |-> ips]

TagPrediction(name, score, category) == [name |-> name, score |-> score, category |-> category]

\* dict.get(key, default) on a mapping given as a function
Get(mapping, key, default) == IF key \in DOMAIN mapping THEN mapping[key] ELSE default

\* a category without a threshold of its own gets 0, General configured or not
resolved_threshold_own_or_zero(cat_thresholds, category) ==
    Get(cat_thresholds, category, 0)

\* the threshold a category resolves to
resolved_threshold(cat_thresholds, category) ==
    Get(cat_thresholds, category, Get(cat_thresholds, GENERAL, 0))

\* the strict-comparison variant rejects a score equal to the threshold
passes_strict(score, threshold) == score >= score_floor /\ score > threshold

\* neither 'score < score_floor' nor 'score < threshold' holds
passes(score, threshold) == ~(score < score_floor) /\ ~(score < threshold)

\* raw_predictions: the table entries whose score passes, in table order
RECURSIVE raw_predictions(_, _, _)
raw_predictions(tags, scores, cat_thresholds) ==
    IF tags = <<>> \/ scores = <<>> THEN <<>>
    ELSE LET tag_meta == Head(tags)
             score == Head(scores)
             rest == raw_predictions(Tail(tags), Tail(scores), cat_thresholds)
         IN  IF passes(score, resolved_threshold(cat_thresholds, tag_meta.category))
             THEN <<TagPrediction(tag_meta.name, score, tag_meta.category)>> \o rest
             ELSE rest

\* the sort key (-pred.score, pred.name) of p is smaller than that of q
KeyLess(p, q) ==
    \/ p.score > q.score
    \/ p.score = q.score /\ StrLess(p.name, q.name)

\* orders by score alone, leaving equal scores in table order
InsertOrdered_score_only(ordered, pred) ==
    LET before == {i \in 1..Len(ordered) : pred.score > ordered[i].score}
        k == IF before = {} THEN Len(ordered) + 1
             ELSE CHOOSE i \in before : \A j \in before : i <= j
    IN  SubSeq(ordered, 1, k - 1) \o <<pred>> \o SubSeq(ordered, k, Len(ordered))

\* one step of the stable sort: pred goes before the first entry with a larger key
InsertOrdered(ordered, pred) ==
    LET before == {i \in 1..Len(ordered) : KeyLess(pred, ordered[i])}
        k == IF before = {} THEN Len(ordered) + 1
             ELSE CHOOSE i \in before : \A j \in before : i <= j
    IN  SubSeq(ordered, 1, k - 1) \o <<pred>> \o SubSeq(ordered, k, Len(ordered))

\* sorted(raw_predictions, key=lambda pred: (-pred.score, pred.name))
RECURSIVE sorted_predictions(_, _)
sorted_predictions(raw, ordered) ==
    IF raw = <<>> THEN ordered
    ELSE sorted_predictions(Tail(raw), InsertOrdered(ordered, Head(raw)))

\* hard_cap = sum(cat_limits.values()) if cat_limits else 100
RECURSIVE SumValues(_, _)
SumValues(mapping, keys) ==
    IF keys = {} THEN 0
    ELSE LET k == CHOOSE x \in keys : TRUE
         IN  mapping[k] + SumValues(mapping, keys \ {k})

hard_cap(cat_limits) ==
    IF DOMAIN cat_limits = {} THEN default_hard_cap
    ELSE SumValues(cat_limits, DOMAIN cat_limits)

Count(taken, category) == Cardinality({i \in 1..Len(taken) : taken[i].category = category})

\* the per-category limit is not looked at
RECURSIVE take_no_limit(_, _, _)
take_no_limit(ordered, taken, cat_limits) ==
    IF ordered = <<>> THEN taken
    ELSE IF Len(taken) >= hard_cap(cat_limits) THEN taken
    ELSE take_no_limit(Tail(ordered), Append(taken, Head(ordered)), cat_limits)

\* the walk over ordered: break at the hard cap, skip a prediction of a full category
RECURSIVE take(_, _, _)
take(ordered, taken, cat_limits) ==
    IF ordered = <<>> THEN taken
    ELSE IF Len(taken) >= hard_cap(cat_limits) THEN taken
    ELSE LET prediction == Head(ordered)
             category == prediction.category
         IN  IF category \in DOMAIN cat_limits /\ Count(taken, category) >= cat_limits[category]
             THEN take(Tail(ordered), taken, cat_limits)
             ELSE take(Tail(ordered), Append(taken, prediction), cat_limits)

\* the walk is made over the candidates in table order
infer_batch_prepared_unsorted(tags, scores, thresholds, max_tags) ==
    IF tags = <<>> THEN <<>>
    ELSE take(raw_predictions(tags, scores, thresholds), <<>>, max_tags)

\* the TagResult.tags of one image
infer_batch_prepared(tags, scores, thresholds, max_tags) ==
    IF tags = <<>> THEN <<>>
    ELSE take(sorted_predictions(raw_predictions(tags, scores, thresholds), <<>>),
              <<>>, max_tags)

(***************************************************************************)
(* The solo rule and the sidecar text (tagging_core.py)                    *)
(***************************************************************************)
RECURSIVE lower(_)
lower(name) ==
    IF name = <<>> THEN <<>>
    ELSE <<CASE Head(name) = "A" -> "a"
             [] Head(name) = "S" -> "s"
             [] OTHER -> Head(name)>> \o lower(Tail(name))

Solo == <<"s", "o", "l", "o">>

\* tagger.tag_meta_lookup = {tag.name: tag for tag in self.tags}: the last entry of a
\* name wins; get() of an unknown name gives no ips
RECURSIVE lookup_ips(_, _, _)
lookup_ips(tags, name, found) ==
    IF tags = <<>> THEN found
    ELSE lookup_ips(Tail(tags), name, IF Head(tags).name = name THEN Head(tags).ips ELSE found)

SetOf(seq) == {seq[i] : i \in 1..Len(seq)}

IsCategory(pred, category) == pred.category = category

\* character_tags.sort(key=lambda pred: pred.score, reverse=True)[0]: stable, so the
\* first of the highest-scoring entries
best_character(character_tags) ==
    character_tags[CHOOSE i \in 1..Len(character_tags) :
        /\ \A j \in 1..Len(character_tags) : character_tags[j].score <= character_tags[i].score
        /\ \A j \in 1..(i - 1) : character_tags[j].score < character_tags[i].score]

\* the rule fires on "solo" alone, whatever the setting
filter_tags_by_solo_rule_always(result_tags, tags, enable_solo_limit) ==
    LET general_tags == SelectSeq(result_tags, LAMBDA pred : IsCategory(pred, GENERAL))
        character_tags == SelectSeq(result_tags, LAMBDA pred : IsCategory(pred, CHARACTER))
        solo_tag_found == \E i \in 1..Len(general_tags) : lower(general_tags[i].name) = Solo
    IN  IF solo_tag_found /\ character_tags # <<>>
        THEN LET best_character_tag == best_character(character_tags)
             IN  [final_tags |-> general_tags \o <<best_character_tag>>,
                  all_series_tags |-> SetOf(lookup_ips(tags, best_character_tag.name, <<>>))]
        ELSE [final_tags |-> general_tags \o character_tags,
              all_series_tags |->
                  UNION {SetOf(lookup_ips(tags, character_tags[i].name, <<>>)) :
                            i \in 1..Len(character_tags)}]

\* the name is compared with "solo" as it stands
filter_tags_by_solo_rule_exact(result_tags, tags, enable_solo_limit) ==
    LET general_tags == SelectSeq(result_tags, LAMBDA pred : IsCategory(pred, GENERAL))
        character_tags == SelectSeq(result_tags, LAMBDA pred : IsCategory(pred, CHARACTER))
        solo_tag_found == \E i \in 1..Len(general_tags) : general_tags[i].name = Solo
    IN  IF enable_solo_limit /\ solo_tag_found /\ character_tags # <<>>
        THEN LET best_character_tag == best_character(character_tags)
             IN  [final_tags |-> general_tags \o <<best_character_tag>>,
                  all_series_tags |-> SetOf(lookup_ips(tags, best_character_tag.name, <<>>))]
        ELSE [final_tags |-> general_tags \o character_tags,
              all_series_tags |->
                  UNION {SetOf(lookup_ips(tags, character_tags[i].name, <<>>)) :
                            i \in 1..Len(character_tags)}]

\* result_tags: tag_result.tags; tags: the tagger's label table
filter_tags_by_solo_rule(result_tags, tags, enable_solo_limit) ==
    LET general_tags == SelectSeq(result_tags, LAMBDA pred : IsCategory(pred, GENERAL))
        character_tags == SelectSeq(result_tags, LAMBDA pred : IsCategory(pred, CHARACTER))
        solo_tag_found == \E i \in 1..Len(general_tags) : lower(general_tags[i].name) = Solo
    IN  IF enable_solo_limit /\ solo_tag_found /\ character_tags # <<>>
        THEN LET best_character_tag == best_character(character_tags)
             IN  [final_tags |-> general_tags \o <<best_character_tag>>,
                  all_series_tags |-> SetOf(lookup_ips(tags, best_character_tag.name, <<>>))]
        ELSE [final_tags |-> general_tags \o character_tags,
              all_series_tags |->
                  UNION {SetOf(lookup_ips(tags, character_tags[i].name, <<>>)) :
                            i \in 1..Len(character_tags)}]

\* tag_name.replace("_", " ")
replace_underscore(name) == [i \in 1..Len(name) |-> IF name[i] = "_" THEN " " ELSE name[i]]

\* one step of list.sort(key=lambda pred: pred.score, reverse=True): stable
InsertByScore(ordered, pred) ==
    LET before == {i \in 1..Len(ordered) : pred.score > ordered[i].score}
        k == IF before = {} THEN Len(ordered) + 1
             ELSE CHOOSE i \in before : \A j \in before : i <= j
    IN  SubSeq(ordered, 1, k - 1) \o <<pred>> \o SubSeq(ordered, k, Len(ordered))

RECURSIVE sort_by_score(_, _)
sort_by_score(preds, ordered) ==
    IF preds = <<>> THEN ordered
    ELSE sort_by_score(Tail(preds), InsertByScore(ordered, Head(preds)))

\* tuple(sorted(list(all_series_tags)))
RECURSIVE sorted_series(_)
sorted_series(series) ==
    IF series = {} THEN <<>>
    ELSE LET least == CHOOSE x \in series : \A y \in series \ {x} : StrLess(x, y)
         IN  <<least>> \o sorted_series(series \ {least})

Names(preds, convert_underscore) ==
    [i \in 1..Len(preds) |->
        IF convert_underscore THEN replace_underscore(preds[i].name) ELSE preds[i].name]

\* the general tags put before the character tags
format_tags_general_first(result_tags, series_tags, convert_underscore) ==
    LET general_tags == SelectSeq(result_tags, LAMBDA pred : IsCategory(pred, GENERAL))
        character_tags == SelectSeq(result_tags, LAMBDA pred : IsCategory(pred, CHARACTER))
        series_names == [i \in 1..Len(series_tags) |->
                            IF convert_underscore THEN replace_underscore(series_tags[i])
                            ELSE series_tags[i]]
    IN  join(Names(sort_by_score(general_tags, <<>>), convert_underscore)
                \o series_names
                \o Names(sort_by_score(character_tags, <<>>), convert_underscore))

\* the sidecar text of a TagResult: characters by score, series tags, generals by score
format_tags(result_tags, series_tags, convert_underscore) ==
    LET general_tags == SelectSeq(result_tags, LAMBDA pred : IsCategory(pred, GENERAL))
        character_tags == SelectSeq(result_tags, LAMBDA pred : IsCategory(pred, CHARACTER))
        series_names == [i \in 1..Len(series_tags) |->
                            IF convert_underscore THEN replace_underscore(series_tags[i])
                            ELSE series_tags[i]]
    IN  join(Names(sort_by_score(character_tags, <<>>), convert_underscore)
                \o series_names
                \o Names(sort_by_score(general_tags, <<>>), convert_underscore))

(***************************************************************************)
(* The tagger driven directly: SpecTagger.  One image's scores go through  *)
(* infer_batch_prepared, then its result through filter_tags_by_solo_rule. *)
(***************************************************************************)
SeriesR == <<"r">>

SeriesS == <<"s">>

\* label tables (selected_tags.csv as loaded): general tags out of name order and a
\* rating tag; "Solo", two characters sharing a series, a general tag
LabelTables ==
    { <<>>,
      << TagMeta(<<"b">>, GENERAL, <<>>), TagMeta(<<"a">>, GENERAL, <<>>),
         TagMeta(<<"c">>, GENERAL, <<>>), TagMeta(<<"r">>, RATING, <<>>) >>,
      << TagMeta(<<"S", "o", "l", "o">>, GENERAL, <<>>),
         TagMeta(<<"y">>, CHARACTER, <<SeriesS>>),
         TagMeta(<<"x">>, CHARACTER, <<SeriesR, SeriesS>>),
         TagMeta(<<"a", "_", "b">>, GENERAL, <<>>) >> }

Scores == 1..MaxScore

NoMapping == [category \in {} |-> 0]

\* thresholds a run may be given: none, General and/or Character
ThresholdConfigs ==
    { NoMapping, (GENERAL :> MaxScore - 1), (CHARACTER :> MaxScore - 1),
      (GENERAL :> 0) @@ (CHARACTER :> MaxScore - 1),
      (GENERAL :> MaxScore - 1) @@ (CHARACTER :> 0) }

\* caps a run may be given: none, General alone, General and Character
CapConfigs ==
    {NoMapping}
        \cup {(GENERAL :> g) : g \in 0..MaxCap}
        \cup {(GENERAL :> g) @@ (CHARACTER :> c) : g \in 0..MaxCap, c \in 0..MaxCap}

InitTagger ==
    /\ files = [p \in Paths |-> Absent]
    /\ undo_stack = <<>>
    /\ redo_stack = <<>>
    /\ nextId = 1
    /\ last = NoLast
    /\ call = NoCall
    /\ loop = NoLoop
    /\ window = NoWindow
    /\ \E tags \in LabelTables, thresholds \in ThresholdConfigs, max_tags \in CapConfigs :
          \E scores \in [1..Len(tags) -> Scores] :
             sel = [fn |-> "input", tags |-> tags, scores |-> scores,
                    thresholds |-> thresholds, max_tags |-> max_tags,
                    calls |-> 0, candidates |-> <<>>, previous |-> <<>>,
                    result |-> <<>>, enable_solo_limit |-> FALSE,
                    final_tags |-> <<>>, all_series_tags |-> {}]

TaggerFrame == UNCHANGED <<files, undo_stack, redo_stack, nextId, last, call, loop, window>>

\* how often the same batch is inferred in a row
MaxCalls == 2

\* one call; candidates is its raw_predictions, previous the result of the call before
InferBatchPrepared ==
    /\ sel.fn \in {"input", "infer_batch_prepared"}
    /\ sel.calls < MaxCalls
    /\ sel' = [sel EXCEPT !.fn = "infer_batch_prepared",
                          !.calls = sel.calls + 1,
                          !.candidates = raw_predictions(sel.tags, sel.scores, sel.thresholds),
                          !.previous = sel.result,
                          !.result = infer_batch_prepared(sel.tags, sel.scores,
                                                          sel.thresholds, sel.max_tags)]
    /\ TaggerFrame

FilterTagsBySoloRule(enable_solo_limit) ==
    /\ sel.fn = "infer_batch_prepared"
    /\ LET r == filter_tags_by_solo_rule(sel.result, sel.tags, enable_solo_limit)
       IN  sel' = [sel EXCEPT !.fn = "filter_tags_by_solo_rule",
                              !.enable_solo_limit = enable_solo_limit,
                              !.final_tags = r.final_tags,
                              !.all_series_tags = r.all_series_tags]
    /\ TaggerFrame

NextTagger ==
    \/ InferBatchPrepared
    \/ \E enable_solo_limit \in BOOLEAN : FilterTagsBySoloRule(enable_solo_limit)

SpecTagger == InitTagger /\ [][NextTagger]_vars

(***************************************************************************)
(* Claims about tag selection and the solo rule (checked under SpecTagger) *)
(***************************************************************************)
Inferred == sel.fn \in {"infer_batch_prepared", "filter_tags_by_solo_rule"}

Named(preds, name) == \E i \in 1..Len(preds) : preds[i].name = name

\* C12: a tag is a candidate iff its score is at least the floor 1e-4 and at least
\* its category's resolved threshold: a score equal to the threshold is accepted, one
\* under it rejected, and one under the floor rejected even with threshold 0.
C12_ThresholdCorrectness ==
    Inferred =>
        \A i \in 1..Len(sel.tags) :
            Named(sel.candidates, sel.tags[i].name)
                <=> /\ sel.scores[i] >= score_floor
                    /\ sel.scores[i] >= resolved_threshold(sel.thresholds, sel.tags[i].category)

\* a score equal to its threshold was accepted, and a score under the floor was
\* rejected although its threshold is 0
C12_Witness ==
    /\ Inferred
    /\ \E i \in 1..Len(sel.tags) :
          /\ sel.scores[i] = resolved_threshold(sel.thresholds, sel.tags[i].category)
          /\ Named(sel.candidates, sel.tags[i].name)
    /\ \E i \in 1..Len(sel.tags) :
          /\ sel.scores[i] < score_floor
          /\ resolved_threshold(sel.thresholds, sel.tags[i].category) = 0
          /\ ~Named(sel.candidates, sel.tags[i].name)

\* C13: the tag list of an image is ordered by descending score, ties by ascending
\* name, and a second call on the same scores, table, thresholds and caps returns the
\* identical list.
C13_OrderedAndRepeatable ==
    Inferred =>
        /\ \A i, j \in 1..Len(sel.result) :
              i < j => \/ sel.result[i].score > sel.result[j].score
                       \/ /\ sel.result[i].score = sel.result[j].score
                          /\ StrLess(sel.result[i].name, sel.result[j].name)
        /\ sel.calls = MaxCalls => sel.result = sel.previous

\* the second call returned three tags, two of equal score listed in name order
\* against their table order
C13_Witness ==
    /\ sel.fn = "infer_batch_prepared"
    /\ sel.calls = MaxCalls
    /\ Len(sel.result) = 3
    /\ sel.result[2].score = sel.result[3].score
    /\ sel.result[2].name = <<"a">>
    /\ sel.result[3].name = <<"b">>

\* the global hard cap, from the configuration alone
GlobalCap ==
    IF DOMAIN sel.max_tags = {} THEN 100
    ELSE Get(sel.max_tags, GENERAL, 0) + Get(sel.max_tags, CHARACTER, 0)

\* C14: no capped category holds more accepted tags than its cap, and the accepted
\* tags never number more than the global hard cap: the sum of the configured caps,
\* or 100 when none is configured; at the global cap nothing more is accepted.
C14_CapBounds ==
    Inferred =>
        /\ \A category \in DOMAIN sel.max_tags :
              Count(sel.result, category) <= sel.max_tags[category]
        /\ Len(sel.result) <= GlobalCap
        /\ hard_cap(sel.max_tags) = GlobalCap

\* the result stopped at the global cap with candidates left over, a capped category
\* being full
C14_Witness ==
    /\ Inferred
    /\ Len(sel.result) = GlobalCap
    /\ Len(sel.candidates) > Len(sel.result)
    /\ \E category \in DOMAIN sel.max_tags :
          /\ sel.max_tags[category] > 0
          /\ Count(sel.result, category) = sel.max_tags[category]

\* rank of a candidate: score descending, name ascending
Outranks(p, q) == p.score > q.score \/ (p.score = q.score /\ StrLess(p.name, q.name))

Accepted(pred) == \E i \in 1..Len(sel.result) : sel.result[i] = pred

\* within a category no candidate is accepted while a higher-ranked one is rejected
BestRankedKept ==
    \A i, j \in 1..Len(sel.candidates) :
        LET p == sel.candidates[i]
            q == sel.candidates[j]
        IN  (p.category = q.category /\ Outranks(p, q) /\ Accepted(q)) => Accepted(p)

GeneralCandidates == SelectSeq(sel.candidates, LAMBDA pred : pred.category = GENERAL)

DistinctScores(preds) == \A i, j \in 1..Len(preds) : preds[i].score = preds[j].score => i = j

\* a General cap of k faces n > k qualifying general tags of distinct scores
GeneralOverCap ==
    /\ Inferred
    /\ GENERAL \in DOMAIN sel.max_tags
    /\ Len(GeneralCandidates) > sel.max_tags[GENERAL]
    /\ DistinctScores(GeneralCandidates)

\* C15 as stated: the accepted tags of a capped category are its best-ranked
\* candidates, and with a General cap of k and n > k qualifying general tags of
\* distinct scores exactly the k highest-scoring general tags are kept.
C15_CapCorrectness ==
    /\ Inferred => BestRankedKept
    /\ GeneralOverCap => Count(sel.result, GENERAL) = sel.max_tags[GENERAL]

\* C15 amended: the accepted tags of a category are its best-ranked candidates, and
\* with a General cap of k and n > k qualifying general tags of distinct scores at
\* most k general tags are kept, exactly k unless the result reached the global cap.
C15_CapCorrectnessUnlessGlobalCap ==
    /\ Inferred => BestRankedKept
    /\ GeneralOverCap =>
          /\ Count(sel.result, GENERAL) <= sel.max_tags[GENERAL]
          /\ Len(sel.result) < GlobalCap
                => Count(sel.result, GENERAL) = sel.max_tags[GENERAL]

\* General cap 2 and three qualifying general tags of distinct scores: the two
\* highest-scoring are kept, the third is not
C15_Witness ==
    /\ GeneralOverCap
    /\ sel.max_tags[GENERAL] = 2
    /\ Len(GeneralCandidates) = 3
    /\ Count(sel.result, GENERAL) = 2
    /\ \E i \in 1..3 :
          /\ ~Accepted(GeneralCandidates[i])
          /\ \A j \in 1..3 : GeneralCandidates[j].score >= GeneralCandidates[i].score

Filtered == sel.fn = "filter_tags_by_solo_rule"

ResultGenerals == SelectSeq(sel.result, LAMBDA pred : pred.category = GENERAL)

ResultCharacters == SelectSeq(sel.result, LAMBDA pred : pred.category = CHARACTER)

\* the rule is enabled, a General tag named "solo" in any letter case is accepted and
\* a Character tag is accepted
SoloFires ==
    /\ sel.enable_solo_limit
    /\ \E i \in 1..Len(ResultGenerals) : lower(ResultGenerals[i].name) = <<"s", "o", "l", "o">>
    /\ ResultCharacters # <<>>

\* the series ids the label table gives the character of that name
SeriesOf(name) ==
    UNION {SetOf(sel.tags[i].ips) : i \in {k \in 1..Len(sel.tags) : sel.tags[k].name = name}}

\* C16: when the solo rule fires, the outcome is all General tags unchanged plus
\* exactly one Character tag, the highest-scoring one (the first encountered on equal
\* scores), and the series set is exactly that character's series ids.
C16_SoloRuleFires ==
    (Filtered /\ SoloFires) =>
        /\ Len(sel.final_tags) = Len(ResultGenerals) + 1
        /\ SubSeq(sel.final_tags, 1, Len(ResultGenerals)) = ResultGenerals
        /\ \E i \in 1..Len(ResultCharacters) :
              /\ sel.final_tags[Len(sel.final_tags)] = ResultCharacters[i]
              /\ \A j \in 1..Len(ResultCharacters) :
                    ResultCharacters[j].score <= ResultCharacters[i].score
              /\ \A j \in 1..(i - 1) : ResultCharacters[j].score < ResultCharacters[i].score
              /\ sel.all_series_tags = SeriesOf(ResultCharacters[i].name)

\* "Solo" and two characters of equal score were accepted: the first one, x of the
\* series r and s, is the one retained
C16_Witness ==
    /\ Filtered
    /\ SoloFires
    /\ Len(ResultCharacters) = 2
    /\ ResultCharacters[1].score = ResultCharacters[2].score
    /\ Len(ResultGenerals) = 2
    /\ sel.final_tags[3].name = <<"x">>
    /\ sel.all_series_tags = {SeriesR, SeriesS}

\* C17: when the rule is disabled, or no General "solo" is accepted, or no Character
\* tag is accepted, every Character tag is kept unchanged and in order after the
\* unchanged General tags, and the series set is the union of the series ids of all
\* kept Character tags.
C17_SoloRuleIdle ==
    (Filtered /\ ~SoloFires) =>
        /\ sel.final_tags = ResultGenerals \o ResultCharacters
        /\ sel.all_series_tags =
              UNION {SeriesOf(ResultCharacters[i].name) : i \in 1..Len(ResultCharacters)}

\* the rule is disabled while "Solo" and both characters are accepted: both are kept
\* and their shared series counts once
C17_Witness ==
    /\ Filtered
    /\ ~sel.enable_solo_limit
    /\ \E i \in 1..Len(ResultGenerals) : lower(ResultGenerals[i].name) = <<"s", "o", "l", "o">>
    /\ Len(ResultCharacters) = 2
    /\ Len(sel.final_tags) = Len(ResultGenerals) + 2
    /\ sel.all_series_tags = {SeriesR, SeriesS}

(***************************************************************************)
(* The batch run: SpecBatch.  process_image_loop (tagging_core.py) on the  *)
(* worker thread, one step per action, while the window stays live: a stop *)
(* may be requested and a tag added to the selected image at any moment.   *)
(* Image k of the code's 0-based list is index k + 1 here; its sidecar is  *)
(* the tag file of the same index.                                         *)
(***************************************************************************)
\* image_paths, each named by its sidecar
ImagePaths == <<"p1", "p2">>

\* the tagger's label table in a run
BatchTable ==
    << TagMeta(<<"S", "o", "l", "o">>, GENERAL, <<>>),
       TagMeta(<<"x">>, CHARACTER, <<SeriesR, SeriesS>>),
       TagMeta(<<"a", "_", "b">>, GENERAL, <<>>),
       TagMeta(<<"r">>, RATING, <<>>) >>

\* settings_dict of setup_tagger_from_settings
BatchSettings ==
    [TAG_THRESHOLDS |-> (GENERAL :> MaxScore - 1) @@ (CHARACTER :> MaxScore - 1),
     MAX_TAGS_PER_CATEGORY |-> (GENERAL :> MaxCap) @@ (CHARACTER :> 1),
     ENABLE_SOLO_LIMIT |-> TRUE,
     CONVERT_UNDERSCORE |-> TRUE]

\* what inference may score an image: nothing over the floor, a solo character image,
\* a rating tag alone
BatchScores ==
    { <<1, 1, 1, 1>>,
      <<MaxScore, MaxScore, MaxScore, 1>>,
      <<1, 1, 1, MaxScore>> }

\* the text process_image_loop formats from the TagResult.tags of an image
formatted_tags(result_tags) ==
    LET r == filter_tags_by_solo_rule(result_tags, BatchTable, BatchSettings.ENABLE_SOLO_LIMIT)
    IN  format_tags(r.final_tags, sorted_series(r.all_series_tags),
                    BatchSettings.CONVERT_UNDERSCORE)

\* the poll is made but its answer does not end the loop
after_poll_ignored(l, should_stop) ==
    [l EXCEPT !.pc = "check", !.attempted = @ \cup {l.i}]

\* the top of an iteration, should_stop being what stop_checker() returned
after_poll(l, should_stop) ==
    IF should_stop
    THEN [l EXCEPT !.pc = "done", !.aborted = TRUE]
    ELSE [l EXCEPT !.pc = "check", !.attempted = @ \cup {l.i}]

\* the checker is asked whether or not a sidecar is there
consults_always(is_file, overwrite_checker) == overwrite_checker

\* output_path.is_file() and overwrite_checker: whether overwrite_checker is called
consults(is_file, overwrite_checker) == is_file /\ overwrite_checker

\* the buttons of the overwrite dialog; "closed" is the dialog dismissed without one
Buttons == {"yes", "skip", "yes_all", "no_all", "closed"}

\* MainWindow._ask_overwrite_confirmation, clicked being the button the user would
\* choose if the dialog is shown: the answer and the two flags afterwards
ask_overwrite_confirmation(always_overwrite, always_skip, clicked) ==
    IF always_overwrite
    THEN [answer |-> TRUE, always_overwrite |-> always_overwrite, always_skip |-> always_skip]
    ELSE IF always_skip
    THEN [answer |-> FALSE, always_overwrite |-> always_overwrite, always_skip |-> always_skip]
    ELSE [answer |-> clicked \in {"yes", "yes_all"},
          always_overwrite |-> (clicked = "yes_all"),
          always_skip |-> (clicked = "no_all")]

\* a failure ends the loop
after_failure_break(l) == [l EXCEPT !.pc = "done"]

\* 'continue' after a failure that was logged
after_failure(l) == [l EXCEPT !.pc = "poll", !.i = l.i + 1]

\* the next iteration entered past its poll
next_image_unpolled(l) ==
    IF l.i + 1 > Len(ImagePaths)
    THEN [l EXCEPT !.pc = "poll", !.i = l.i + 1]
    ELSE [l EXCEPT !.pc = "check", !.i = l.i + 1, !.attempted = @ \cup {l.i + 1}]

\* 'continue' of a skipped image, and the end of an iteration's body
next_image(l) == [l EXCEPT !.pc = "poll", !.i = l.i + 1]

\* the emptiness test left out: every result goes on to be formatted and written
after_infer_unchecked(l, result_tags) ==
    [l EXCEPT !.pc = "write", !.text = formatted_tags(result_tags)]

\* if not results or not results[0].tags: continue; otherwise the solo filter and
\* format_tags give the text to write
after_infer(l, result_tags) ==
    IF result_tags = <<>>
    THEN next_image(l)
    ELSE [l EXCEPT !.pc = "write", !.text = formatted_tags(result_tags)]

InitBatch ==
    /\ files \in InitialFiles
    /\ undo_stack = <<>>
    /\ redo_stack = <<>>
    /\ nextId = 1
    /\ last = NoLast
    /\ call = NoCall
    /\ sel = NoSel
    /\ window = NoWindow
    /\ \E overwrite_checker \in BOOLEAN, stop_checker \in BOOLEAN :
          loop = [pc |-> "poll", i |-> 1, overwrite_checker |-> overwrite_checker,
                  stop_checker |-> stop_checker,
                  always_overwrite |-> FALSE, always_skip |-> FALSE,
                  stop_event |-> FALSE, stopped_in |-> 0,
                  aborted |-> FALSE, first_true |-> 0,
                  attempted |-> {}, existed |-> {}, consulted |-> {}, approved |-> {},
                  declined |-> {}, loaded |-> {}, load_failed |-> {}, inferred |-> {},
                  infer_failed |-> {}, empty |-> {}, written |-> {}, overwrote |-> {},
                  write_failed |-> {}, touched |-> {}, text |-> <<>>]

BatchFrame == UNCHANGED <<undo_stack, redo_stack, nextId, last, call, sel, window>>

\* the steps of an iteration that follow its poll
Body == {"check", "load", "infer", "write"}

\* TaggerThreadWorker.stop, from the window's stop request; stopped_in is the image in
\* work when the request arrives (0: the loop is at a poll)
StopRequest ==
    /\ loop.stop_checker
    /\ loop.pc # "done"
    /\ ~loop.stop_event
    /\ loop' = [loop EXCEPT !.stop_event = TRUE,
                            !.stopped_in = IF loop.pc \in Body THEN loop.i ELSE 0]
    /\ UNCHANGED files
    /\ BatchFrame

\* for i, image_path in enumerate(image_paths): if stop_checker: ... if should_stop: break
Poll ==
    /\ loop.pc = "poll"
    /\ IF loop.i > Len(ImagePaths)
       THEN loop' = [loop EXCEPT !.pc = "done"]
       ELSE LET should_stop == loop.stop_checker /\ loop.stop_event
            IN  loop' = [after_poll(loop, should_stop) EXCEPT
                            !.first_true = IF should_stop /\ loop.first_true = 0
                                           THEN loop.i ELSE @]
    /\ UNCHANGED files
    /\ BatchFrame

\* if output_path.is_file() and overwrite_checker and not overwrite_checker(output_path)
CheckExisting ==
    /\ loop.pc = "check"
    /\ LET is_file == files[ImagePaths[loop.i]].exists
           seen == [loop EXCEPT !.existed = IF is_file THEN @ \cup {loop.i} ELSE @]
       IN  IF consults(is_file, loop.overwrite_checker)
           THEN \E clicked \in Buttons :
                   LET r == ask_overwrite_confirmation(loop.always_overwrite,
                                                       loop.always_skip, clicked)
                       asked == [seen EXCEPT !.consulted = @ \cup {loop.i},
                                             !.always_overwrite = r.always_overwrite,
                                             !.always_skip = r.always_skip]
                   IN  loop' = IF r.answer
                               THEN [asked EXCEPT !.pc = "load",
                                                  !.approved = @ \cup {loop.i}]
                               ELSE [next_image(asked) EXCEPT
                                                  !.declined = @ \cup {loop.i}]
           ELSE loop' = [seen EXCEPT !.pc = "load"]
    /\ UNCHANGED files
    /\ BatchFrame

\* Image.open(f).convert("RGB"), or the exception that is logged
LoadImage ==
    /\ loop.pc = "load"
    /\ \E ok \in BOOLEAN :
          loop' = IF ok
                  THEN [loop EXCEPT !.pc = "infer", !.loaded = @ \cup {loop.i}]
                  ELSE [after_failure(loop) EXCEPT !.load_failed = @ \cup {loop.i}]
    /\ UNCHANGED files
    /\ BatchFrame

\* tagger.infer_batch, or the exception that is logged; an empty result is skipped
Infer ==
    /\ loop.pc = "infer"
    /\ \/ loop' = [after_failure(loop) EXCEPT !.infer_failed = @ \cup {loop.i}]
       \/ \E scores \in BatchScores :
             LET result_tags == infer_batch_prepared(BatchTable, scores,
                                    BatchSettings.TAG_THRESHOLDS,
                                    BatchSettings.MAX_TAGS_PER_CATEGORY)
             IN  loop' = [after_infer(loop, result_tags) EXCEPT
                             !.inferred = @ \cup {loop.i},
                             !.empty = IF Len(result_tags) = 0 THEN @ \cup {loop.i} ELSE @]
    /\ UNCHANGED files
    /\ BatchFrame

\* open(long_path_str, 'w') and f.write(formatted_tags); open may fail and leave the
\* file as it is, write may fail after open has truncated it
WriteSidecar ==
    /\ loop.pc = "write"
    /\ LET p == ImagePaths[loop.i]
       IN  \/ /\ files' = [files EXCEPT ![p] = File(loop.text)]
              /\ loop' = [next_image(loop) EXCEPT
                             !.written = @ \cup {loop.i},
                             !.touched = @ \cup {loop.i},
                             !.overwrote = IF files[p].exists THEN @ \cup {loop.i} ELSE @,
                             !.text = <<>>]
           \/ /\ UNCHANGED files
              /\ loop' = [after_failure(loop) EXCEPT !.write_failed = @ \cup {loop.i},
                                                     !.text = <<>>]
           \/ /\ files' = [files EXCEPT ![p] = File(<<>>)]
              /\ loop' = [after_failure(loop) EXCEPT !.write_failed = @ \cup {loop.i},
                                                     !.touched = @ \cup {loop.i},
                                                     !.text = <<>>]
    /\ BatchFrame

NextBatch ==
    \/ StopRequest
    \/ Poll
    \/ CheckExisting
    \/ LoadImage
    \/ Infer
    \/ WriteSidecar
    \/ \E p \in CurrentImages : AddSingleTag(p, <<TagA>>)

SpecBatch == InitBatch /\ [][NextBatch]_vars

(***************************************************************************)
(* Claims about the batch run                                              *)
(***************************************************************************)
\* every index the loop has done anything for beyond the poll
Handled ==
    loop.existed \cup loop.consulted \cup loop.loaded \cup loop.load_failed
        \cup loop.inferred \cup loop.infer_failed \cup loop.written
        \cup loop.write_failed \cup loop.touched

\* C18: stop_checker is polled before anything else is done for an image, so all that
\* the loop does for an image follows a poll that returned false; and once the poll
\* before image k is the first to return true, exactly the images before k have been
\* attempted, nothing has been or is done for an image from k onward (no consultation,
\* load, inference or write), and no later step of the loop changes a sidecar.
C18_BatchCancellation ==
    /\ [](/\ Handled \subseteq loop.attempted
          /\ loop.pc \in {"check", "load", "infer", "write"} => loop.i \in loop.attempted
          /\ loop.first_true # 0 =>
                /\ loop.pc = "done"
                /\ loop.attempted = 1 .. (loop.first_true - 1)
                /\ \A j \in loop.first_true .. Len(ImagePaths) : j \notin Handled)
    /\ [][loop'.first_true # 0 /\ loop' # loop => files' = files]_vars

\* the run is stopped at the poll before the second image, after the first was written
C18_Witness ==
    /\ loop.first_true = 2
    /\ loop.attempted = {1}
    /\ 1 \in loop.written
    /\ files["p2"] = Absent

\* every index the loop has loaded, inferred or written for, or tried to
Processed ==
    loop.loaded \cup loop.load_failed \cup loop.inferred \cup loop.infer_failed
        \cup loop.written \cup loop.write_failed \cup loop.touched

\* C19 as stated: overwrite_checker is consulted only for an image whose sidecar exists;
\* a declined image is neither loaded nor inferred nor written; and a sidecar that
\* exists when the loop writes it is overwritten only after overwrite_checker returned
\* true for it in this run.
C19_OverwritePolicy ==
    /\ loop.consulted \subseteq loop.existed
    /\ loop.declined \cap Processed = {}
    /\ loop.overwrote \subseteq loop.approved

\* C19 as the code has it: overwrite_checker, when one is supplied, is consulted for an
\* image only when its sidecar exists at the moment the loop examines the image; if it
\* declines, that step leaves every sidecar as it is, the loop goes on to the poll of
\* the next image and never loads, infers or writes the declined one; and with a checker
\* supplied, a sidecar that existed at that examination is overwritten by the loop only
\* after overwrite_checker returned true for it in this run.
C19_OverwritePolicyWithChecker ==
    /\ [](/\ loop.consulted \subseteq loop.existed
          /\ loop.consulted = loop.approved \cup loop.declined
          /\ loop.approved \cap loop.declined = {}
          /\ (loop.consulted # {}) => loop.overwrite_checker
          /\ loop.declined \cap Processed = {}
          /\ loop.overwrite_checker =>
                (loop.overwrote \cap loop.existed) \subseteq loop.approved)
    /\ [][loop'.consulted # loop.consulted =>
             /\ loop.pc = "check"
             /\ files[ImagePaths[loop.i]].exists
             /\ files' = files]_vars
    /\ [][loop'.declined # loop.declined =>
             /\ files' = files
             /\ loop'.pc = "poll"
             /\ loop'.i = loop.i + 1]_vars

\* the first image was declined and kept its sidecar, the second was approved and its
\* sidecar overwritten
C19_Witness ==
    /\ loop.overwrite_checker
    /\ loop.declined = {1}
    /\ loop.approved = {2}
    /\ 2 \in loop.overwrote
    /\ files["p1"].exists

\* every index on which a load, an inference or a write has failed
Failed == loop.load_failed \cup loop.infer_failed \cup loop.write_failed

\* C20: a load, inference or write failure on an image never ends the loop: the step
\* that fails goes on to the poll of the next image, and the loop is only ever finished
\* with every image attempted or by a poll that returned true; a load or inference
\* failure happens in a step that leaves every sidecar as it is, and the loop never
\* writes the sidecar of an image whose load or inference failed.
C20_ErrorIsolation ==
    /\ [](/\ (loop.pc = "done" /\ loop.first_true = 0) =>
                loop.attempted = 1 .. Len(ImagePaths)
          /\ loop.aborted => loop.first_true # 0
          /\ (loop.load_failed \cup loop.infer_failed) \cap loop.touched = {})
    /\ [][Failed' # Failed =>
             /\ loop'.pc = "poll"
             /\ loop'.i = loop.i + 1
             /\ ~loop'.aborted]_vars
    /\ [][(loop'.load_failed # loop.load_failed \/ loop'.infer_failed # loop.infer_failed)
             => files' = files]_vars

\* the first image failed to load and kept its sidecar; the loop went on, wrote the
\* sidecar of the second image and finished without a stop
C20_Witness ==
    /\ loop.load_failed = {1}
    /\ loop.written = {2}
    /\ loop.pc = "done"
    /\ loop.first_true = 0
    /\ files["p1"].exists
    /\ files["p2"] = File(<<"x", ",", " ", "r", ",", " ", "s", ",", " ",
                            "S", "o", "l", "o", ",", " ", "a", " ", "b">>)

\* C21: when the inference of an image yields no tag, that step leaves every sidecar as
\* it is and goes on to the poll of the next image, and the loop never writes, creates
\* or truncates the sidecar of such an image, nor counts it as a failure.
C21_EmptyResultSkipped ==
    /\ [](/\ loop.empty \cap (loop.touched \cup loop.written \cup Failed) = {}
          /\ loop.pc = "write" => loop.i \notin loop.empty)
    /\ [][loop'.empty # loop.empty =>
             /\ files' = files
             /\ loop'.pc = "poll"
             /\ loop'.i = loop.i + 1
             /\ ~loop'.aborted]_vars

\* the first image gave no tag: it had no sidecar and has none, and the loop went on to
\* the second image, whose existing sidecar it rewrote
C21_Witness ==
    /\ loop.empty = {1}
    /\ files["p1"] = Absent
    /\ 2 \in loop.overwrote

(***************************************************************************)
(* The sidecar text on its own: SpecFormat.  Any retained tags and series  *)
(* tags an image may end with go through the formatting of                 *)
(* process_image_loop (tagging_core.py 402-408).                           *)
(***************************************************************************)
\* how many tags a result holds
MaxTags == 3

SeriesSA == <<"s", "_", "a">>

\* the tags a result may hold, by name and category
FormatNames ==
    { [name |-> <<"x">>, category |-> CHARACTER],
      [name |-> <<"y", "_", "b">>, category |-> CHARACTER],
      [name |-> <<"a", "_", "b">>, category |-> GENERAL],
      [name |-> <<"c">>, category |-> GENERAL],
      [name |-> <<"r">>, category |-> RATING] }

\* a retained tag has passed the floor
FormatScores == {score_floor, MaxScore}

FormatPredictions ==
    { TagPrediction(n.name, score, n.category) : n \in FormatNames, score \in FormatScores }

\* TagResult.tags in any order, no name twice
FormatResults ==
    { r \in SeqsUpTo(FormatPredictions, MaxTags) :
        \A i, j \in 1..Len(r) : i # j => r[i].name # r[j].name }

InitFormat ==
    /\ files = [p \in Paths |-> Absent]
    /\ undo_stack = <<>>
    /\ redo_stack = <<>>
    /\ nextId = 1
    /\ last = NoLast
    /\ call = NoCall
    /\ loop = NoLoop
    /\ window = NoWindow
    /\ \E final_tags \in FormatResults, all_series_tags \in SUBSET {SeriesR, SeriesSA} :
          sel = [fn |-> "result", final_tags |-> final_tags,
                 all_series_tags |-> all_series_tags,
                 convert_underscore |-> FALSE, text |-> <<>>]

\* tag_result.tags = final_tags; tag_result.series_tags = tuple(sorted(...));
\* formatted_tags = format_tags(tag_result, settings['CONVERT_UNDERSCORE'])
FormatTags(convert_underscore) ==
    /\ sel.fn = "result"
    /\ sel' = [sel EXCEPT !.fn = "format_tags",
                          !.convert_underscore = convert_underscore,
                          !.text = format_tags(sel.final_tags,
                                               sorted_series(sel.all_series_tags),
                                               convert_underscore)]
    /\ TaggerFrame

NextFormat == \E convert_underscore \in BOOLEAN : FormatTags(convert_underscore)

SpecFormat == InitFormat /\ [][NextFormat]_vars

(***************************************************************************)
(* Claims about the sidecar text (checked under SpecFormat)                *)
(***************************************************************************)
Formatted == sel.fn = "format_tags"

\* a tag as the sidecar shows it under the flag of the call
Rendered(name) ==
    [i \in 1..Len(name) |->
        IF sel.convert_underscore /\ name[i] = "_" THEN " " ELSE name[i]]

\* the sequences that hold the elements of seq, each once, in some order
Arrangements(seq) ==
    { [i \in 1..Len(seq) |-> seq[f[i]]] :
        f \in { g \in [1..Len(seq) -> 1..Len(seq)] :
                  \A a, b \in 1..Len(seq) : a # b => g[a] # g[b] } }

\* the sequences that hold the elements of a set, each once
Listings(set) ==
    { q \in SeqsUpTo(set, Cardinality(set)) :
        /\ Len(q) = Cardinality(set)
        /\ \A a, b \in 1..Len(q) : a # b => q[a] # q[b] }

Retained(category) == SelectSeq(sel.final_tags, LAMBDA pred : pred.category = category)

Descending(preds) == \A i \in 1..(Len(preds) - 1) : preds[i].score >= preds[i + 1].score

Ascending(names) == \A i \in 1..(Len(names) - 1) : StrLess(names[i], names[i + 1])

\* C22: the text is the comma-space join of all retained Character tags in an order of
\* descending score, then all series tags in ascending order of their names, then all
\* retained General tags in an order of descending score, and of nothing else; each tag
\* is shown with its underscores turned into spaces if the flag is set and as it is
\* otherwise.
C22_SidecarContentOrder ==
    Formatted =>
        \E characters \in Arrangements(Retained(CHARACTER)),
           series \in Listings(sel.all_series_tags),
           generals \in Arrangements(Retained(GENERAL)) :
            /\ Descending(characters)
            /\ Ascending(series)
            /\ Descending(generals)
            /\ sel.text = join([i \in 1..Len(characters) |-> Rendered(characters[i].name)]
                               \o [i \in 1..Len(series) |-> Rendered(series[i])]
                               \o [i \in 1..Len(generals) |-> Rendered(generals[i].name)])

\* two characters given in ascending score, a general tag and two series tags, with
\* the flag set: "y b, x, r, s a, a b"
C22_Witness ==
    /\ Formatted
    /\ sel.convert_underscore
    /\ sel.final_tags = << TagPrediction(<<"x">>, score_floor, CHARACTER),
                           TagPrediction(<<"y", "_", "b">>, MaxScore, CHARACTER),
                           TagPrediction(<<"a", "_", "b">>, MaxScore, GENERAL) >>
    /\ sel.all_series_tags = {SeriesR, SeriesSA}
    /\ sel.text = <<"y", " ", "b", ",", " ", "x", ",", " ", "r", ",", " ",
                    "s", " ", "a", ",", " ", "a", " ", "b">>

(***************************************************************************)
(* Threshold resolution (checked under SpecTagger)                         *)
(***************************************************************************)
\* the threshold the claim gives a category: its own if configured, else the General
\* one if configured, else 0.0
Applied(category) ==
    IF category \in DOMAIN sel.thresholds THEN sel.thresholds[category]
    ELSE IF GENERAL \in DOMAIN sel.thresholds THEN sel.thresholds[GENERAL]
    ELSE 0

\* C26: a tag over the floor is a candidate iff its score is at least the configured
\* threshold of its own category if there is one, otherwise the configured General
\* threshold, otherwise 0; so with thresholds for General and Character alone, a tag of
\* another category is accepted iff it reaches the General threshold.
C26_ThresholdResolution ==
    Inferred =>
        \A i \in 1..Len(sel.tags) :
            /\ sel.scores[i] >= score_floor =>
                  (Named(sel.candidates, sel.tags[i].name)
                      <=> sel.scores[i] >= Applied(sel.tags[i].category))
            /\ (DOMAIN sel.thresholds = {GENERAL, CHARACTER}
                    /\ sel.tags[i].category \notin {GENERAL, CHARACTER}
                    /\ sel.scores[i] >= score_floor) =>
                  (Named(sel.candidates, sel.tags[i].name)
                      <=> sel.scores[i] >= sel.thresholds[GENERAL])

\* with General and Character configured, a rating tag that reaches the Character
\* threshold but not the General one is rejected
C26_Witness ==
    /\ Inferred
    /\ DOMAIN sel.thresholds = {GENERAL, CHARACTER}
    /\ \E i \in 1..Len(sel.tags) :
          /\ sel.tags[i].category = RATING
          /\ sel.scores[i] >= score_floor
          /\ sel.scores[i] >= sel.thresholds[CHARACTER]
          /\ sel.scores[i] < sel.thresholds[GENERAL]
          /\ ~Named(sel.candidates, sel.tags[i].name)

(***************************************************************************)
(* Single-file edits of the main window and their undo: SpecInverse.       *)
(* Tag files of any shape (a tag twice, padding, empty entries, empty, no  *)
(* file) are edited through _add_single_tag and _delete_image_tag, and the *)
(* undo shortcut is pressed at any moment.                                 *)
(***************************************************************************)
InverseFiles ==
    { [p \in Paths |-> IF p = "p1" THEN f1 ELSE Absent] :
        f1 \in { Absent, File(<<>>), File(<<"a">>), File(<<"b", ",", " ", "a">>),
                 File(<<"a", ",", " ", "b", ",", " ", "a">>),
                 File(<<" ", "a", " ", ",", ",", "b">>) } }

InitInverse ==
    /\ files \in InverseFiles
    /\ undo_stack = <<>>
    /\ redo_stack = <<>>
    /\ nextId = 1
    /\ last = NoLast
    /\ call = NoCall
    /\ sel = NoSel
    /\ loop = NoLoop
    /\ window = NoWindow

NextInverse ==
    \/ \E p \in CurrentImages, new_tags \in TagInputs : AddSingleTag(p, new_tags)
    \/ \E p \in CurrentImages, tag \in {TagA, TagB} : DeleteImageTag(p, tag)
    \/ Undo

SpecInverse == InitInverse /\ [][NextInverse]_vars

\* C27: when undo() is called right after a single-file add or delete of the main
\* window, it succeeds and the file's ordered tag list is again the one the file had
\* before the edit: the added tags are gone, the deleted tag is back at its index.
C27_ExactInverse ==
    call.fn \in {"_add_single_tag;undo", "_delete_image_tag;undo"} =>
        /\ last.ret
        /\ read_tags(files[call.path]) = read_tags(call.pre)
        /\ read_tags(call.post) # read_tags(call.pre)

\* the first of two a is deleted from "a, b, a" and undo() puts it back in front
C27_Witness ==
    /\ call.fn = "_delete_image_tag;undo"
    /\ call.tags = <<TagA>>
    /\ call.pre = File(<<"a", ",", " ", "b", ",", " ", "a">>)
    /\ call.post = File(<<"b", ",", " ", "a">>)
    /\ files[call.path] = call.pre

(***************************************************************************)
(* The size of the history (checked under SpecManager)                     *)
(***************************************************************************)
\* C28: in every state reached by push, undo, redo and clear, the two stacks together
\* hold at most max_history actions, so the undo stack never holds more although redo()
\* appends to it without a capacity check; and no action is in both stacks.
C28_HistorySize ==
    /\ Len(undo_stack) + Len(redo_stack) <= max_history
    /\ \A i \in 1..Len(undo_stack) : ~InStack(undo_stack[i].id, redo_stack)

\* a redo() has just filled the undo stack to max_history
C28_Witness ==
    /\ last.op = "redo"
    /\ last.ret
    /\ Len(undo_stack) = max_history
    /\ redo_stack = <<>>

(***************************************************************************)
(* The text handed to the write step (checked under SpecBatch)             *)
(***************************************************************************)
\* C29: whenever the write step is reached, the formatted tag string holds at least
\* one tag, so no sidecar the loop writes is empty.
C29_WrittenSidecarNonEmpty ==
    /\ loop.pc = "write" => ParseTags(loop.text) # <<>>
    /\ \A i \in loop.written : ParseTags(files[ImagePaths[i]].content) # <<>>

(***************************************************************************)
(* Cooperative cancellation (checked under SpecBatch)                      *)
(***************************************************************************)
\* the images the loop has left with one of its outcomes
Outcome ==
    loop.declined \cup loop.load_failed \cup loop.infer_failed \cup loop.empty
        \cup loop.written \cup loop.write_failed

\* C25: a stop request that arrives while image i is in work (its poll has returned
\* false) does not interrupt it: no step of the iteration ends the loop, image i leaves
\* the loop with a normal outcome, reaching the write step if its load and inference
\* succeeded with a result, and the only poll that can return true is the one before
\* image i + 1, so that no image after i is attempted.
C25_CooperativeCancellation ==
    /\ [](loop.stopped_in # 0 =>
            /\ loop.attempted = 1 .. loop.stopped_in
            /\ loop.first_true \in {0, loop.stopped_in + 1}
            /\ loop.pc = "done" =>
                  (loop.first_true # 0 \/ loop.stopped_in = Len(ImagePaths))
            /\ loop.i > loop.stopped_in =>
                  /\ loop.stopped_in \in Outcome
                  /\ (loop.stopped_in \in (loop.loaded \cap loop.inferred) \ loop.empty) =>
                        loop.stopped_in \in loop.written \cup loop.write_failed)
    /\ [][(loop.stop_event /\ loop.pc \in Body /\ loop' # loop) =>
             /\ loop'.pc \in Body \cup {"poll"}
             /\ ~loop'.aborted
             /\ loop'.pc = "poll" => loop'.i = loop.i + 1]_vars

\* the stop arrived while the first image was in work: its sidecar was written all the
\* same and the run ended at the poll before the second image
C25_Witness ==
    /\ loop.stopped_in = 1
    /\ 1 \in loop.written
    /\ loop.first_true = 2
    /\ loop.pc = "done"
    /\ files["p2"] = Absent

(***************************************************************************)
(* The main window's threads: SpecWindow.  The handlers of the window run  *)
(* one at a time in the GUI thread; the steps of a TaggerThreadWorker run  *)
(* in its own QThread and interleave with them.  A signal a worker emits   *)
(* is queued to the GUI thread and delivered later.  The model download    *)
(* branches of the run button are outside the model: the model file is     *)
(* taken to be available.                                                  *)
(***************************************************************************)
\* the tagger workers a behaviour creates (caps the run counter)
MaxRuns == 2

\* the bulk workers a behaviour creates (caps the counter)
MaxBulk == 2

\* the signals of TaggerThreadWorker that run_tagging emits
RunningTrue == "running_state_changed(True)"

RunningFalse == "running_state_changed(False)"

ReloadImageList == "reload_image_list_signal"

Finished == "finished"

\* a TaggerThreadWorker moved to its started QThread, run_tagging not yet entered
NewWorker == [pc |-> "started", stop_event |-> FALSE, path |-> "none", emitted |-> <<>>]

\* the window after construction and the initial load: no tagger thread, the bulk
\* flag clear, the tag list of the input directory loading (initial_load) or, without
\* an input directory, left alone
InitWindow ==
    /\ files = [p \in Paths |-> Absent]
    /\ undo_stack = <<>>
    /\ redo_stack = <<>>
    /\ nextId = 1
    /\ last = NoLast
    /\ call = NoCall
    /\ sel = NoSel
    /\ loop = NoLoop
    /\ \E loading \in BOOLEAN :
          window = [step |-> "init", tagger_thread |-> 0, workers |-> <<>>, pending |-> 0,
                    run_button |-> TRUE, is_bulk_deleting |-> FALSE,
                    bulk_controls |-> ~loading, tag_loading |-> loading,
                    bulk_workers |-> 0, aborted |-> FALSE]

WindowFrame == UNCHANGED <<files, undo_stack, redo_stack, nextId, last, call, sel, loop>>

\* MainWindow.reload_tags_only: a TagLoader is started (a running one is replaced) and
\* the bulk controls are disabled until its tags_loaded arrives
reload_tags_only(w) == [w EXCEPT !.tag_loading = TRUE, !.bulk_controls = FALSE]

\* MainWindow._update_ui_for_processing with _set_main_controls_enabled and
\* _check_model_status_and_update_ui: the run button ends enabled either way
update_ui_for_processing(w, is_running) ==
    [w EXCEPT !.bulk_controls = ~is_running, !.run_button = TRUE]

\* MainWindow._cleanup_tagger_thread: quit() and wait(1000) on a running thread, then
\* deleteLater and the references dropped.  The thread's event loop can only quit once
\* run_tagging has returned; a QThread deleted while its slot is still running is a
\* fatal error of the toolkit, which ends the process (the wait that succeeds because
\* the worker returns in time is the interleaving with the worker's return first).
cleanup_tagger_thread(w) ==
    IF w.tagger_thread = 0
    THEN w
    ELSE IF w.workers[w.tagger_thread].pc = "returned"
         THEN [w EXCEPT !.tagger_thread = 0]
         ELSE [w EXCEPT !.tagger_thread = 0, !.aborted = TRUE]

\* MainWindow._on_tagger_finished, the slot of TaggerThreadWorker.finished
on_tagger_finished(w) ==
    cleanup_tagger_thread(update_ui_for_processing(reload_tags_only(w), FALSE))

\* QApplication.processEvents: the queued finished signals are delivered
RECURSIVE process_events(_)
process_events(w) ==
    IF w.pending = 0 \/ w.aborted
    THEN w
    ELSE process_events(on_tagger_finished([w EXCEPT !.pending = @ - 1]))

\* a tagging run started whether or not a tagger thread is running
start_tagging_thread_unguarded(w) ==
    LET c == [w EXCEPT !.tagger_thread = 0]
        u == update_ui_for_processing(c, TRUE)
    IN  [u EXCEPT !.workers = Append(@, NewWorker),
                  !.tagger_thread = Len(w.workers) + 1]

\* MainWindow._start_tagging_thread
start_tagging_thread(w) ==
    IF w.tagger_thread # 0
    THEN w
    ELSE LET c == cleanup_tagger_thread(w)
             u == update_ui_for_processing(c, TRUE)
         IN  [u EXCEPT !.workers = Append(@, NewWorker),
                       !.tagger_thread = Len(w.workers) + 1]

\* MainWindow._stop_tagging_thread
stop_tagging_thread(w) ==
    IF w.tagger_thread = 0
    THEN w
    ELSE [w EXCEPT !.run_button = FALSE,
                   !.workers[w.tagger_thread].stop_event = TRUE]

\* MainWindow.toggle_download_or_start_tagging
toggle_download_or_start_tagging(w) ==
    LET e == process_events(w)
    IN  IF e.aborted THEN e
        ELSE IF e.tagger_thread # 0
             THEN stop_tagging_thread(e)
             ELSE start_tagging_thread(e)

\* the run button is clicked
RunButton ==
    /\ ~window.aborted
    /\ window.run_button
    /\ Len(process_events(window).workers) < MaxRuns \/ process_events(window).tagger_thread # 0
    /\ window' = [toggle_download_or_start_tagging(window) EXCEPT !.step = "toggle"]
    /\ WindowFrame

\* a request to start a tagging run that does not come through the run button's test
StartTaggingThread ==
    /\ ~window.aborted
    /\ Len(window.workers) < MaxRuns
    /\ window' = [start_tagging_thread(window) EXCEPT !.step = "start"]
    /\ WindowFrame

\* the GUI thread delivers a queued finished signal
DeliverFinished ==
    /\ ~window.aborted
    /\ window.pending > 0
    /\ window' = [on_tagger_finished([window EXCEPT !.pending = @ - 1])
                     EXCEPT !.step = "finished"]
    /\ WindowFrame

\* QThread.started: run_tagging is entered and announces itself
RunTagging(k) ==
    /\ ~window.aborted
    /\ window.workers[k].pc = "started"
    /\ window' = [window EXCEPT !.step = "worker",
                                !.workers[k].pc = "setup",
                                !.workers[k].emitted = Append(@, RunningTrue)]
    /\ WindowFrame

\* the setup of run_tagging: the tagger cannot be set up, the input directory holds no
\* image (both announce the end and return, through the finally block), the setup
\* raises, or the loop is entered
Setup(k) ==
    /\ ~window.aborted
    /\ window.workers[k].pc = "setup"
    /\ \E path \in {"init_failed", "no_images", "exception", "loop"} :
          window' =
              IF path \in {"init_failed", "no_images"}
              THEN [window EXCEPT !.step = "worker",
                                  !.workers[k].pc = "finally",
                                  !.workers[k].path = path,
                                  !.workers[k].emitted = @ \o <<RunningFalse, Finished>>,
                                  !.pending = @ + 1]
              ELSE IF path = "exception"
              THEN [window EXCEPT !.step = "worker",
                                  !.workers[k].pc = "finally",
                                  !.workers[k].path = path]
              ELSE [window EXCEPT !.step = "worker", !.workers[k].pc = "loop"]
    /\ WindowFrame

\* process_image_loop returns: all images done, the stop observed at a poll, or an
\* exception caught by run_tagging
ProcessImageLoop(k) ==
    /\ ~window.aborted
    /\ window.workers[k].pc = "loop"
    /\ \E path \in {"completed", "exception"}
               \cup (IF window.workers[k].stop_event THEN {"cancelled"} ELSE {}) :
          window' = [window EXCEPT !.step = "worker",
                                   !.workers[k].pc = "finally",
                                   !.workers[k].path = path]
    /\ WindowFrame

\* the finally block of run_tagging
Finally(k) ==
    /\ ~window.aborted
    /\ window.workers[k].pc = "finally"
    /\ window' = [window EXCEPT !.step = "worker",
                                !.workers[k].pc = "exit",
                                !.workers[k].emitted =
                                    @ \o <<RunningFalse, ReloadImageList, Finished>>,
                                !.pending = @ + 1]
    /\ WindowFrame

\* run_tagging returns to the event loop of its thread
Return(k) ==
    /\ ~window.aborted
    /\ window.workers[k].pc = "exit"
    /\ window' = [window EXCEPT !.step = "worker", !.workers[k].pc = "returned"]
    /\ WindowFrame

\* MainWindow._start_bulk_tag_worker: the flag is set, the controls are disabled and a
\* BulkTagWorker is created; connecting its bulk_add_completed signal, which the class
\* does not have, raises AttributeError before the thread is started
start_bulk_tag_worker(w) ==
    [w EXCEPT !.is_bulk_deleting = TRUE, !.bulk_controls = FALSE,
              !.bulk_workers = @ + 1]

\* MainWindow.add_tag_all and MainWindow.delete_tag_all, confirmed by the user
bulk_tag_all(w) ==
    IF w.is_bulk_deleting THEN w ELSE start_bulk_tag_worker(w)

\* a bulk add or a bulk delete is requested through the enabled controls
BulkTagAll ==
    /\ ~window.aborted
    /\ window.bulk_controls
    /\ window.is_bulk_deleting \/ window.bulk_workers < MaxBulk
    /\ window' = [bulk_tag_all(window) EXCEPT !.step = "bulk"]
    /\ WindowFrame

\* reload_tags_only at the end of a single-tag edit, an undo or redo, a folder drop or
\* the return from the grid view
ReloadTagsOnly ==
    /\ ~window.aborted
    /\ window' = [reload_tags_only(window) EXCEPT !.step = "reload"]
    /\ WindowFrame

\* MainWindow._update_bulk_tag_buttons, the slot of TagLoader.tags_loaded
update_bulk_tag_buttons(w) ==
    [w EXCEPT !.is_bulk_deleting = FALSE, !.bulk_controls = TRUE, !.tag_loading = FALSE]

\* the TagLoader delivers the tag list
TagsLoaded ==
    /\ ~window.aborted
    /\ window.tag_loading
    /\ window' = [update_bulk_tag_buttons(window) EXCEPT !.step = "tags_loaded"]
    /\ WindowFrame

NextWindow ==
    \/ RunButton
    \/ StartTaggingThread
    \/ DeliverFinished
    \/ \E k \in 1 .. MaxRuns : k <= Len(window.workers) /\ RunTagging(k)
    \/ \E k \in 1 .. MaxRuns : k <= Len(window.workers) /\ Setup(k)
    \/ \E k \in 1 .. MaxRuns : k <= Len(window.workers) /\ ProcessImageLoop(k)
    \/ \E k \in 1 .. MaxRuns : k <= Len(window.workers) /\ Finally(k)
    \/ \E k \in 1 .. MaxRuns : k <= Len(window.workers) /\ Return(k)
    \/ BulkTagAll
    \/ ReloadTagsOnly
    \/ TagsLoaded

SpecWindow == InitWindow /\ [][NextWindow]_vars

(***************************************************************************)
(* Claims about the window's threads (checked under SpecWindow)            *)
(***************************************************************************)
\* the tagger workers whose run_tagging has been started and has not returned
Active == {k \in 1 .. Len(window.workers) : window.workers[k].pc # "returned"}

\* C23: at most one tagging task is active at any time; a request to start a tagging
\* run while a tagger thread is running creates no worker and changes neither the
\* thread nor the workers, and a click on the run button while the running task is at
\* work creates no worker and only sets the stop event of that task.
C23_SingleTaggingTask ==
    /\ [](~window.aborted => Cardinality(Active) <= 1)
    /\ [][(window'.step = "start" /\ window.tagger_thread # 0) =>
             /\ window'.workers = window.workers
             /\ window'.tagger_thread = window.tagger_thread]_vars
    /\ [][(/\ window'.step = "toggle"
           /\ window.tagger_thread # 0
           /\ window.pending = 0) =>
             /\ window'.tagger_thread = window.tagger_thread
             /\ window'.workers =
                   [window.workers EXCEPT ![window.tagger_thread].stop_event = TRUE]]_vars

\* a start was requested while the first worker was in its loop and was rejected: the
\* first worker is still the only one
C23_Witness ==
    /\ window.step = "start"
    /\ window.tagger_thread = 1
    /\ Len(window.workers) = 1
    /\ window.workers[1].pc = "loop"
    /\ ~window.workers[1].stop_event

\* the occurrences of a signal among those a worker has emitted
Emissions(k, signal) ==
    {n \in 1 .. Len(window.workers[k].emitted) : window.workers[k].emitted[n] = signal}

\* C30: once run_tagging has returned, on whichever path, it has emitted finished
\* exactly once, running_state_changed(True) came first and a
\* running_state_changed(False) came before finished.
C30_FinishedExactlyOnce ==
    \A k \in 1 .. Len(window.workers) :
        window.workers[k].pc = "returned" =>
            /\ Cardinality(Emissions(k, Finished)) = 1
            /\ window.workers[k].emitted[1] = RunningTrue
            /\ \A f \in Emissions(k, Finished) :
                  \E r \in Emissions(k, RunningFalse) : r < f

\* C24: from the start of a bulk worker on, as long as it has not finished, the busy
\* flag is set and no further bulk worker is started.
C24_SingleBulkOperation ==
    window.bulk_workers # 0 =>
        /\ window.is_bulk_deleting
        /\ window.bulk_workers = 1

====
